---- MODULE Spec2Model ----
(***************************************************************************)
(* Memory SSA construction of SVF (lib/MSSA/MemSSA.cpp).                    *)
(*                                                                         *)
(* A session (one MemSSA object) builds the memory SSA form of functions   *)
(* one after the other: buildMemSSA = setCurrentDFDT ; createMUCHI ;       *)
(* insertPHI ; SSARename.  SSARename is the recursive walk SSARenameBB     *)
(* over the dominator tree; the recursion is modelled with an explicit     *)
(* call stack, one frame per active invocation.                            *)
(***************************************************************************)
EXTENDS Integers, Sequences, FiniteSets, TLC

\* ------------------------------------------------------------------------
\* Bounds of the model
\* ------------------------------------------------------------------------
\* instructions (loads, stores, call sites) in a function of Spec
MaxInstrs == 2
\* instructions in a function of SpecSession (two functions, one session)
MaxSessionInstrs == 1
\* instructions in a function of SpecOrder (iteration orders vary)
MaxOrderInstrs == 2
\* instructions in a function of SpecPhi (any dominance frontier map)
MaxPhiInstrs == 2
\* instructions in a function of SpecPhiLive
MaxPhiLiveInstrs == 2
\* instructions in a function of SpecJoin (diamond, while loop)
MaxJoinInstrs == 2

\* ------------------------------------------------------------------------
\* Inputs: memory regions, instructions, functions
\* ------------------------------------------------------------------------
\* the regions the region generator supplies, in the iteration order of MRSet
MRSeq == <<"r1", "r2">>

MRs == {MRSeq[i] : i \in 1..Len(MRSeq)}

\* the iteration orders the build does not fix itself: of an MRSet (mrs), of a
\* region's list of defining blocks (bbs), of a set keyed by the addresses of
\* blocks (blocks) and of a set keyed by the addresses of nodes (nodes).
\* blocks (per function) and nodes list blocks and node numbers by ascending
\* address; what a list leaves out lies above, ascending by number. The addresses of blocks
\* are there when the session starts, those of nodes are made when the nodes
\* are allocated
VARIABLE order

\* calls of buildMemSSA, in a session, on a function that was built before
MaxRebuilds == 1
\* nodes on the heap up to which the caller builds a function again
MaxHeap == 3

CanonOrder == [mrs |-> MRSeq, bbs |-> "asc", blocks |-> << >>, nodes |-> << >>]

Reverse(s) == [i \in 1..Len(s) |-> s[Len(s) + 1 - i]]

\* all orderings of a finite set
Perms(S) ==
    {p \in [1..Cardinality(S) -> S] : \A i, j \in 1..Cardinality(S) : i # j => p[i] # p[j]}

\* all maps that hold, for every key of C, one element of the set C holds for it
RECURSIVE ChoiceMaps(_)
ChoiceMaps(C) ==
    IF DOMAIN C = {} THEN {<< >>}
    ELSE LET k == CHOOSE x \in DOMAIN C : TRUE
             rest == [x \in DOMAIN C \ {k} |-> C[x]]
         IN  {(k :> v) @@ m : v \in C[k], m \in ChoiceMaps(rest)}

\* an MRSet iterated in set order
MRSetSeq(S) == SelectSeq(order.mrs, LAMBDA r : r \in S)

Instr(op, ref, mod) == [op |-> op, ref |-> ref, mod |-> mod]

RetInstr == Instr("ret", {}, {})

\* the loads, stores and non-intrinsic call sites functions are made of
InstrMenu ==
    { Instr("load", {"r1"}, {}),
      Instr("store", {}, {"r1"}),
      Instr("call", {"r1", "r2"}, {"r1"}),
      Instr("store", {}, {"r2"}) }

\* a call site the analysis treats as an intrinsic: no mu, no chi
IntrinsicCall == Instr("icall", {"r2"}, {"r2"})

\* a store whose MRSet holds two regions
StoreBoth == Instr("store", {}, {"r1", "r2"})

\* control-flow graphs: successor sets per block, block 1 is the entry block
\* (an entry block has no predecessor)
CFGShapes ==
    { << {} >>,                               \* one block
      << {2}, {} >>,                          \* straight line
      << {2, 3}, {}, {} >>,                   \* branch, two exits
      << {2, 3}, {3}, {} >>,                  \* if-then
      << {2}, {2, 3}, {} >>,                  \* self loop
      << {2, 3}, {3}, {2} >>,                 \* irreducible loop, no exit
      << {2}, {2}, {2} >>,                    \* dead block 3 jumps into a loop
      << {2}, {2}, {} >> }                    \* endless loop, dead exit block 3

\* the shapes of the first and of the second function of a two-function session
SessionShapes ==
    { << {} >>,
      << {2, 3}, {3}, {} >> }

SecondShapes == { << {} >> }

\* all sequences over S of length at most k
BSeq(S, k) == UNION {[1..n -> S] : n \in 0..k}

\* the ways to give n blocks instruction lists, drawn from menu, of at most k
\* instructions in all
RECURSIVE BodiesOver(_, _, _)
BodiesOver(menu, n, k) ==
    IF n = 0 THEN {<< >>}
    ELSE UNION { {Append(rest, c) : rest \in BodiesOver(menu, n - 1, k - Len(c))}
                 : c \in BSeq(menu, k) }

Bodies(n, k) == BodiesOver(InstrMenu, n, k)

ExitBlocks(succ) == {b \in 1..Len(succ) : succ[b] = {}}

\* the predecessors of block b in the CFG succ
PredSet(succ, b) == {p \in 1..Len(succ) : b \in succ[p]}

\* the orders in which the blocks of the CFG succ may list their predecessors
\* (pred_begin .. pred_end follows the use list of the block)
PredOrders(succ) == ChoiceMaps([b \in 1..Len(succ) |-> Perms(PredSet(succ, b))])

\* a function: its CFG, the predecessor list of each block and the
\* instructions of each block; a block without successor ends in a return
\* (b \in rets) or in `unreachable'
MkFun(succ, preds, body, rets) ==
    [succ |-> succ,
     preds |-> preds,
     code |-> [b \in 1..Len(succ) |->
                 IF b \in rets THEN Append(body[b], RetInstr) ELSE body[b]],
     ext |-> FALSE]

\* an external function: a declaration, no block
ExtFun == [succ |-> << >>, preds |-> << >>, code |-> << >>, ext |-> TRUE]

isExtCall(f) == f.ext

\* the functions of a session, in the order they are built
FunSeq == <<"f", "g">>

FunIds == {FunSeq[i] : i \in 1..Len(FunSeq)}

NoFun == "none"

EntryBlock == 1

BlocksOf(f) == 1..Len(f.succ)

\* ------------------------------------------------------------------------
\* The program representation and the dominance queries (external)
\* ------------------------------------------------------------------------
RECURSIVE ReachFrom(_, _, _)
ReachFrom(f, seen, avoid) ==
    LET nxt == (UNION {f.succ[b] : b \in seen}) \ avoid
    IN  IF nxt \subseteq seen THEN seen ELSE ReachFrom(f, seen \cup nxt, avoid)

\* getFunReachableBBs: the blocks reachable from the entry block
ReachableBBs(f) == ReachFrom(f, {EntryBlock}, {})

\* ascending sequence of a set of blocks
RECURSIVE SortedSeq(_)
SortedSeq(S) ==
    IF S = {} THEN << >>
    ELSE LET m == CHOOSE x \in S : \A y \in S : x <= y
         IN  <<m>> \o SortedSeq(S \ {m})

\* pred_begin(b) .. pred_end(b)
Preds(f, b) == f.preds[b]

GetBBPredecessorPosFromEnd(f, bb, succ) ==
    LET ps == Preds(f, succ)
    IN  Len(ps) - (CHOOSE i \in 1..Len(ps) : ps[i] = bb)

\* getBBPredecessorPos: position of bb among the predecessors of succ
getBBPredecessorPos(f, bb, succ) ==
    LET ps == Preds(f, succ)
    IN  (CHOOSE i \in 1..Len(ps) : ps[i] = bb) - 1

\* d strictly dominates b (both reachable)
StrictlyDominates(f, d, b) ==
    /\ d # b
    /\ {d, b} \subseteq ReachableBBs(f)
    /\ (d = EntryBlock \/ b \notin ReachFrom(f, {EntryBlock}, {d}))

Dominates(f, d, b) ==
    \/ (d = b /\ b \in ReachableBBs(f))
    \/ StrictlyDominates(f, d, b)

SDoms(f, b) == {d \in BlocksOf(f) : StrictlyDominates(f, d, b)}

\* immediate dominator of a reachable block other than the entry block
IDom(f, b) == CHOOSE d \in SDoms(f, b) : \A e \in SDoms(f, b) : Dominates(f, e, d)

\* the children of reachable block b in the dominator tree
DomChildren(f, b) == {c \in ReachableBBs(f) \ {EntryBlock} : IDom(f, c) = b}

\* the dominator trees of f: the children of every reachable block, in any of
\* the orders the tree may list them
DominatorTrees(f) ==
    ChoiceMaps([b \in ReachableBBs(f) |-> Perms(DomChildren(f, b))])

\* the dominance frontier of every reachable block
DominanceFrontier(f) ==
    [b \in ReachableBBs(f) |->
        {y \in ReachableBBs(f) :
            /\ ~StrictlyDominates(f, b, y)
            /\ \E p \in ReachableBBs(f) : y \in f.succ[p] /\ Dominates(f, b, p)}]

\* functionDoesNotRet: no return instruction is reachable from the entry
functionDoesNotRet(f) ==
    \A b \in ReachableBBs(f) :
        \A i \in 1..Len(f.code[b]) : f.code[b][i].op # "ret"

\* ------------------------------------------------------------------------
\* State of a session (the fields of MemSSA)
\* ------------------------------------------------------------------------
VARIABLES
    prog,            \* the functions of the module: function id -> function
    pc,              \* position inside buildMemSSA, "idle" between builds
    cur,             \* the function being built (the last one built when idle)
    built,           \* function id -> number of completed builds
    df, dt,          \* current dominance frontier and dominator tree
    usedRegs,        \* regions used in the current function
    reg2BBMap,       \* region -> blocks that define it
    mr2CounterMap,   \* region -> next version number
    mr2VerStackMap,  \* region -> stack of versions
    nodes,           \* every MU, CHI and PHI allocated so far, by allocation order
    callStack,       \* active invocations of SSARenameBB, innermost last
    pushCount,       \* history: versions pushed per region in the current build
    popCount,        \* history: versions popped per region in the current build
    lastRet,         \* history: the invocation of SSARenameBB that just returned
    domInfo,         \* function id -> the dominance data its caller passes
    warnings,        \* number of messages written with writeWrnMsg
    phiLoop,         \* the loops of insertPHI, when it is followed step by step
    session          \* stat: mrGen, stat and pta are set (not NULL);
                     \* deleted: the nodes destroy() has deleted

vars == <<prog, pc, cur, built, df, dt, usedRegs, reg2BBMap, mr2CounterMap,
          mr2VerStackMap, nodes, callStack, pushCount, popCount, lastRet,
          domInfo, warnings, phiLoop, order, session>>

\* the numbers of S by ascending address: those addrs lists, in its order, then
\* the others by ascending number
AddrSeq(addrs, S) ==
    SelectSeq(addrs, LAMBDA x : x \in S)
        \o SortedSeq(S \ {addrs[i] : i \in 1..Len(addrs)})

\* a std::set of blocks of function fn (a DomSetType), in its iteration order
BlockSetSeq(fn, S) ==
    AddrSeq(IF fn \in DOMAIN order.blocks THEN order.blocks[fn] ELSE << >>, S)

\* a std::set of nodes (a CHISet, a PHISet), in its iteration order
NodeSetSeq(S) == AddrSeq(order.nodes, S)

\* the set a chi or phi belongs to: the chi set of its instruction, the phi
\* set of its block
NodeSetKey(n) ==
    IF n.kind = "PHI" THEN <<n.fun, "PHI", n.bb, 0>> ELSE <<n.fun, n.kind, n.bb, n.idx>>

\* the chi sets and phi sets of ns that hold several nodes
NodeSets(ns) ==
    LET ids == {i \in 1..Len(ns) : ns[i].kind \in {"PHI", "StoreCHI", "CallCHI"}}
        setOf(i) == {j \in ids : NodeSetKey(ns[j]) = NodeSetKey(ns[i])}
    IN  {S \in {setOf(i) : i \in ids} : Cardinality(S) >= 2}

\* the orders by address of the nodes of set S, the nodes addrs lists keeping
\* the addresses they have
AddrExtensions(addrs, S) ==
    LET listed == {addrs[i] : i \in 1..Len(addrs)}
    IN  {p \in Perms(S) : SelectSeq(p, LAMBDA x : x \in listed)
                             = SelectSeq(addrs, LAMBDA x : x \in S)}

\* the lists of a map, one after the other
RECURSIVE FlattenSeqs(_)
FlattenSeqs(m) ==
    IF DOMAIN m = {} THEN << >>
    ELSE LET k == CHOOSE x \in DOMAIN m : TRUE
         IN  m[k] \o FlattenSeqs([x \in DOMAIN m \ {k} |-> m[x]])

\* the blocks of a function whose addresses are compared: those of the
\* frontier sets that hold several blocks
ComparedBlocks(info) ==
    UNION {IF Cardinality(info.df[b]) >= 2 THEN info.df[b] ELSE {} : b \in DOMAIN info.df}

\* the orders by address the blocks of every function may have
BlockAddrs(infos) ==
    ChoiceMaps([fn \in DOMAIN infos |-> Perms(ComparedBlocks(infos[fn]))])

\* reg2BBMap[mr], in the order the blocks were collected
WorklistSeq(bbs) == IF order.bbs = "asc" THEN bbs ELSE Reverse(bbs)

\* an MRVer: region, version number, defining node
MRVer(mr, version, def) == [mr |-> mr, version |-> version, def |-> def]

\* the NULL version of a node that was not renamed
NoVer == MRVer("", -1, 0)

\* MRVer::operator== : region and version number match
VerEq(v, w) == v.mr = w.mr /\ v.version = w.version

\* a freshly allocated node; `at' is history: the block where the operand was
\* last renamed (the block of the node, for a RETMU the block of the return)
NewNode(kind, fn, bb, idx, mr) ==
    [kind |-> kind, fun |-> fn, bb |-> bb, idx |-> idx, mr |-> mr,
     opVer |-> NoVer, resVer |-> NoVer, opVers |-> << >>, at |-> bb]

NodeIds == 1..Len(nodes)

MUKinds == {"LoadMU", "CallMU", "RetMU"}

CHIKinds == {"StoreCHI", "CallCHI", "EntryCHI"}

DefKinds == CHIKinds \cup {"PHI"}

\* load2MuSetMap[load], store2ChiSetMap[store], callsiteToMuSetMap[cs], ...
NodesAt(ns, kind, fn, bb, idx) ==
    {i \in 1..Len(ns) : /\ ns[i].kind = kind /\ ns[i].fun = fn
                        /\ ns[i].bb = bb /\ ns[i].idx = idx}

FunNodesAnyFun(ns, kind, fn) == {i \in 1..Len(ns) : ns[i].kind = kind}

\* funToEntryChiSetMap[fun], funToReturnMuSetMap[fun]
FunNodes(ns, kind, fn) == {i \in 1..Len(ns) : ns[i].kind = kind /\ ns[i].fun = fn}

\* bb2PhiSetMap[bb]
getPHISet(ns, fn, bb) ==
    {i \in 1..Len(ns) : ns[i].kind = "PHI" /\ ns[i].fun = fn /\ ns[i].bb = bb}

\* ------------------------------------------------------------------------
\* newSSAName
\* ------------------------------------------------------------------------
NewSSANameSharedCounter(mr, def, ctr, stk) ==
    LET version == ctr[mr]
        other == CHOOSE r \in MRs : r # mr
        shared == version + IF other \in DOMAIN ctr THEN ctr[other] ELSE 0
        mrVer == MRVer(mr, shared, def)
    IN  [ver |-> mrVer,
         ctr |-> [ctr EXCEPT ![mr] = version + 1],
         stk |-> [stk EXCEPT ![mr] = Append(@, mrVer)]]

NewSSANameNoIncrement(mr, def, ctr, stk) ==
    LET version == ctr[mr]
        mrVer == MRVer(mr, version, def)
    IN  [ver |-> mrVer, ctr |-> ctr,
         stk |-> [stk EXCEPT ![mr] = Append(@, mrVer)]]

\* mint the next version of mr for node def and push it on the stack of mr
\* (both maps hold mr: createMUCHI initialised them for every used region)
newSSAName(mr, def, ctr, stk) ==
    LET version == ctr[mr]
        mrVer == MRVer(mr, version, def)
    IN  [ver |-> mrVer,
         ctr |-> [ctr EXCEPT ![mr] = version + 1],
         stk |-> [stk EXCEPT ![mr] = Append(@, mrVer)]]

\* ------------------------------------------------------------------------
\* createMUCHI
\* ------------------------------------------------------------------------
\* mu(r): if r \notin varKills then global = global \cup r
collectRegUses(s, mr) ==
    IF mr \notin s.varKills THEN [s EXCEPT !.usedRegs = @ \cup {mr}] ELSE s

CollectRegDefsPushBack(s, bb, mr) ==
    [s EXCEPT !.varKills = @ \cup {mr},
              !.reg2BBMap[mr] = Append(@, bb)]

\* r = chi(r): varKills = varKills \cup r, block(r) = block(r) \cup bb
collectRegDefs(s, bb, mr) ==
    [s EXCEPT !.varKills = @ \cup {mr},
              !.reg2BBMap[mr] =
                  IF \E i \in 1..Len(@) : @[i] = bb THEN @ ELSE Append(@, bb)]

AddMU(s, kind, fn, bb, idx, mr) ==
    collectRegUses([s EXCEPT !.nodes = Append(@, NewNode(kind, fn, bb, idx, mr))], mr)

AddCHI(s, kind, fn, bb, idx, mr) ==
    collectRegDefs(
        collectRegUses([s EXCEPT !.nodes = Append(@, NewNode(kind, fn, bb, idx, mr))], mr),
        bb, mr)

\* AddLoadMU / AddCallSiteMU over an MRSet
RECURSIVE AddMUSet(_, _, _, _, _, _)
AddMUSet(s, kind, fn, bb, idx, mrs) ==
    IF mrs = << >> THEN s
    ELSE AddMUSet(AddMU(s, kind, fn, bb, idx, Head(mrs)), kind, fn, bb, idx, Tail(mrs))

\* AddStoreCHI / AddCallSiteCHI over an MRSet
RECURSIVE AddCHISet(_, _, _, _, _, _)
AddCHISet(s, kind, fn, bb, idx, mrs) ==
    IF mrs = << >> THEN s
    ELSE AddCHISet(AddCHI(s, kind, fn, bb, idx, Head(mrs)), kind, fn, bb, idx, Tail(mrs))

MuchiInstAnyCall(s, fn, bb, idx, inst) ==
    LET s1 == IF inst.op = "load"
                  THEN AddMUSet(s, "LoadMU", fn, bb, idx, MRSetSeq(inst.ref))
              ELSE IF inst.op = "store"
                  THEN AddCHISet(s, "StoreCHI", fn, bb, idx, MRSetSeq(inst.mod))
              ELSE s
    IN  IF inst.op \in {"call", "icall"}
        THEN LET s2 == IF inst.ref # {}
                           THEN AddMUSet(s1, "CallMU", fn, bb, idx, MRSetSeq(inst.ref))
                           ELSE s1
             IN  IF inst.mod # {}
                     THEN AddCHISet(s2, "CallCHI", fn, bb, idx, MRSetSeq(inst.mod))
                     ELSE s2
        ELSE s1

\* the mus and chis of one instruction
muchiInst(s, fn, bb, idx, inst) ==
    LET s1 == IF inst.op = "load"
                  THEN AddMUSet(s, "LoadMU", fn, bb, idx, MRSetSeq(inst.ref))
              ELSE IF inst.op = "store"
                  THEN AddCHISet(s, "StoreCHI", fn, bb, idx, MRSetSeq(inst.mod))
              ELSE s
    IN  IF inst.op = "call"
        THEN LET s2 == IF inst.ref # {}
                           THEN AddMUSet(s1, "CallMU", fn, bb, idx, MRSetSeq(inst.ref))
                           ELSE s1
             IN  IF inst.mod # {}
                     THEN AddCHISet(s2, "CallCHI", fn, bb, idx, MRSetSeq(inst.mod))
                     ELSE s2
        ELSE s1

RECURSIVE muchiInsts(_, _, _, _, _)
muchiInsts(s, fn, f, bb, idx) ==
    IF idx > Len(f.code[bb]) THEN s
    ELSE muchiInsts(muchiInst(s, fn, bb, idx, f.code[bb][idx]), fn, f, bb, idx + 1)

\* getFunReachableBBs: a worklist over the dominator tree, last block pushed
\* first out; bbVec is the worklist, out the blocks handed out so far
RECURSIVE getFunReachableBBs(_, _, _, _)
getFunReachableBBs(dtm, bbVec, visited, out) ==
    IF bbVec = << >> THEN out
    ELSE LET bb == bbVec[Len(bbVec)]
             kids == IF bb \in DOMAIN dtm THEN dtm[bb] ELSE << >>
             new == SelectSeq(kids, LAMBDA c : c \notin visited)
         IN  getFunReachableBBs(dtm, SubSeq(bbVec, 1, Len(bbVec) - 1) \o new,
                                visited \cup {new[i] : i \in 1..Len(new)},
                                Append(out, bb))

MuchiAllBBs(f, dtm) ==
    LET reach == getFunReachableBBs(dtm, <<EntryBlock>>, {}, << >>)
    IN  reach \o SortedSeq(BlocksOf(f) \ {reach[i] : i \in 1..Len(reach)})

\* the blocks createMUCHI walks: those reachable from the function entry, in
\* the order getFunReachableBBs hands them out
muchiBBs(f, dtm) == getFunReachableBBs(dtm, <<EntryBlock>>, {}, << >>)

RECURSIVE muchiBlocks(_, _, _, _)
muchiBlocks(s, fn, f, bbs) ==
    IF bbs = << >> THEN s
    ELSE muchiBlocks(muchiInsts([s EXCEPT !.varKills = {}], fn, f, Head(bbs), 1),
                     fn, f, Tail(bbs))

EntryChiAlwaysRetMu(s, fn, f, mr) ==
    LET id == Len(s.nodes) + 1
        ctr0 == (mr :> 0) @@ s.ctr
        stk0 == (mr :> << >>) @@ s.stk
        n1 == newSSAName(mr, id, ctr0, stk0)
        n2 == newSSAName(mr, id, n1.ctr, n1.stk)
        chi == [NewNode("EntryCHI", fn, 0, 0, mr) EXCEPT
                    !.opVer = n1.ver, !.resVer = n2.ver, !.at = EntryBlock]
    IN  [s EXCEPT !.ctr = n2.ctr, !.stk = n2.stk,
                  !.nodes = Append(Append(@, chi), NewNode("RetMU", fn, 0, 0, mr))]

EntryChiOneName(s, fn, f, mr) ==
    LET id == Len(s.nodes) + 1
        ctr0 == (mr :> 0) @@ s.ctr
        stk0 == (mr :> << >>) @@ s.stk
        n1 == newSSAName(mr, id, ctr0, stk0)
        chi == [NewNode("EntryCHI", fn, 0, 0, mr) EXCEPT
                    !.opVer = n1.ver, !.resVer = n1.ver, !.at = EntryBlock]
        withChi == [s EXCEPT !.ctr = n1.ctr, !.stk = n1.stk,
                             !.nodes = Append(@, chi)]
    IN  IF functionDoesNotRet(f) = FALSE
        THEN [withChi EXCEPT !.nodes = Append(@, NewNode("RetMU", fn, 0, 0, mr))]
        ELSE withChi

EntryChiNoReset(s, fn, f, mr) ==
    LET id == Len(s.nodes) + 1
        ctr0 == s.ctr @@ (mr :> 0)
        stk0 == s.stk @@ (mr :> << >>)
        n1 == newSSAName(mr, id, ctr0, stk0)
        n2 == newSSAName(mr, id, n1.ctr, n1.stk)
        chi == [NewNode("EntryCHI", fn, 0, 0, mr) EXCEPT
                    !.opVer = n1.ver, !.resVer = n2.ver, !.at = EntryBlock]
        withChi == [s EXCEPT !.ctr = n2.ctr, !.stk = n2.stk,
                             !.nodes = Append(@, chi)]
    IN  IF functionDoesNotRet(f) = FALSE
        THEN [withChi EXCEPT !.nodes = Append(@, NewNode("RetMU", fn, 0, 0, mr))]
        ELSE withChi

\* the entry chi (and return mu) of one used region: r_1 = chi(r_0)
entryChi(s, fn, f, mr) ==
    LET id == Len(s.nodes) + 1
        ctr0 == (mr :> 0) @@ s.ctr
        stk0 == (mr :> << >>) @@ s.stk
        n1 == newSSAName(mr, id, ctr0, stk0)
        n2 == newSSAName(mr, id, n1.ctr, n1.stk)
        chi == [NewNode("EntryCHI", fn, 0, 0, mr) EXCEPT
                    !.opVer = n1.ver, !.resVer = n2.ver, !.at = EntryBlock]
        withChi == [s EXCEPT !.ctr = n2.ctr, !.stk = n2.stk,
                             !.nodes = Append(@, chi)]
    IN  IF functionDoesNotRet(f) = FALSE
        THEN [withChi EXCEPT !.nodes = Append(@, NewNode("RetMU", fn, 0, 0, mr))]
        ELSE withChi

RECURSIVE entryChis(_, _, _, _)
entryChis(s, fn, f, mrs) ==
    IF mrs = << >> THEN s
    ELSE entryChis(entryChi(s, fn, f, Head(mrs)), fn, f, Tail(mrs))

\* createMUCHI on the session state s = [nodes, usedRegs, reg2BBMap, varKills,
\* ctr, stk]
createMUCHI(s, fn, f, dtm) ==
    LET walked == muchiBlocks(s, fn, f, muchiBBs(f, dtm))
    IN  entryChis(walked, fn, f, MRSetSeq(walked.usedRegs))

\* ------------------------------------------------------------------------
\* insertPHI
\* ------------------------------------------------------------------------
PhiFrontierBBNoClosure(s, fn, mr, pbb) ==
    IF mr \notin s.has[pbb]
    THEN [s EXCEPT !.has[pbb] = @ \cup {mr},
                   !.nodes = Append(@, NewNode("PHI", fn, pbb, 0, mr)),
                   !.usedRegs = @ \cup {mr}]
    ELSE s

PhiFrontierBBNoDedup(s, fn, mr, pbb) ==
    [s EXCEPT !.has[pbb] = @ \cup {mr},
              !.nodes = Append(@, NewNode("PHI", fn, pbb, 0, mr)),
              !.usedRegs = @ \cup {mr},
              !.bbs = Append(@, pbb)]

\* one block pbb of the frontier of a worklist block, on s = [nodes, usedRegs,
\* has, bbs, wrn]; has is bb2MRSetMap, bbs the worklist of the region
phiFrontierBB(s, fn, mr, pbb) ==
    IF mr \notin s.has[pbb]
    THEN [s EXCEPT !.has[pbb] = @ \cup {mr},
                   !.nodes = Append(@, NewNode("PHI", fn, pbb, 0, mr)),
                   !.usedRegs = @ \cup {mr},
                   !.bbs = Append(@, pbb)]
    ELSE s

RECURSIVE phiDomSet(_, _, _, _)
phiDomSet(s, fn, mr, domSet) ==
    IF domSet = << >> THEN s
    ELSE phiDomSet(phiFrontierBB(s, fn, mr, Head(domSet)), fn, mr, Tail(domSet))

PhiPopBreakOnMiss(s, fn, mr, dfm) ==
    LET bb == s.bbs[Len(s.bbs)]
        popped == [s EXCEPT !.bbs = SubSeq(@, 1, Len(@) - 1)]
    IN  IF bb \notin DOMAIN dfm
        THEN [popped EXCEPT !.wrn = @ + 1, !.bbs = << >>]
        ELSE phiDomSet(popped, fn, mr, BlockSetSeq(fn, dfm[bb]))

\* one iteration of the worklist loop: the last block is popped; a block the
\* frontier map does not hold is a warning and nothing else
phiPop(s, fn, mr, dfm) ==
    LET bb == s.bbs[Len(s.bbs)]
        popped == [s EXCEPT !.bbs = SubSeq(@, 1, Len(@) - 1)]
    IN  IF bb \notin DOMAIN dfm
        THEN [popped EXCEPT !.wrn = @ + 1]
        ELSE phiDomSet(popped, fn, mr, BlockSetSeq(fn, dfm[bb]))

\* the worklist loop of one region
RECURSIVE phiWorklist(_, _, _, _)
phiWorklist(s, fn, mr, dfm) ==
    IF s.bbs = << >> THEN s
    ELSE phiWorklist(phiPop(s, fn, mr, dfm), fn, mr, dfm)

RECURSIVE phiRegions(_, _, _, _, _)
phiRegions(s, fn, mrs, r2bb, dfm) ==
    IF mrs = << >> THEN s
    ELSE phiRegions(phiWorklist([s EXCEPT !.bbs = WorklistSeq(r2bb[Head(mrs)])],
                                fn, Head(mrs), dfm),
                    fn, Tail(mrs), r2bb, dfm)

\* bb2MRSetMap when insertPHI begins
NoPhiYet(f) == [b \in BlocksOf(f) |-> {}]

\* insertPHI of function fn (f): the nodes, used regions and warnings afterwards
insertPHI(ns, used, fn, f, r2bb, dfm) ==
    phiRegions([nodes |-> ns, usedRegs |-> used,
                has |-> NoPhiYet(f), bbs |-> << >>, wrn |-> 0],
               fn, MRSetSeq(used), r2bb, dfm)

\* ------------------------------------------------------------------------
\* SSARenameBB
\* ------------------------------------------------------------------------
\* getTopStackVer
getTopStackVer(stk, mr) == stk[mr][Len(stk[mr])]

\* RenameMuSet on r = [nodes, ctr, stk, memRegs]
RenameMuSet(r, ids) ==
    LET ns == r.nodes
    IN  [r EXCEPT !.nodes =
            [i \in DOMAIN ns |->
                IF i \in ids
                THEN [ns[i] EXCEPT !.opVer = getTopStackVer(r.stk, ns[i].mr)]
                ELSE ns[i]]]

\* one chi of RenameChiSet
RenameChi(r, id) ==
    LET mr == r.nodes[id].mr
        op == getTopStackVer(r.stk, mr)
        n == newSSAName(mr, id, r.ctr, r.stk)
    IN  [nodes |-> [r.nodes EXCEPT ![id].opVer = op, ![id].resVer = n.ver],
         ctr |-> n.ctr, stk |-> n.stk, memRegs |-> Append(r.memRegs, mr)]

RECURSIVE RenameChiSet(_, _)
RenameChiSet(r, ids) ==
    IF ids = << >> THEN r ELSE RenameChiSet(RenameChi(r, Head(ids)), Tail(ids))

\* one phi of RenamePhiRes
RenamePhi(r, id) ==
    LET mr == r.nodes[id].mr
        n == newSSAName(mr, id, r.ctr, r.stk)
    IN  [nodes |-> [r.nodes EXCEPT ![id].resVer = n.ver],
         ctr |-> n.ctr, stk |-> n.stk, memRegs |-> Append(r.memRegs, mr)]

RECURSIVE RenamePhiRes(_, _)
RenamePhiRes(r, ids) ==
    IF ids = << >> THEN r ELSE RenamePhiRes(RenamePhi(r, Head(ids)), Tail(ids))

\* RenamePhiOps: operand pos of every phi of the set
RenamePhiOps(r, ids, pos) ==
    LET ns == r.nodes
    IN  [r EXCEPT !.nodes =
            [i \in DOMAIN ns |->
                IF i \in ids
                THEN [ns[i] EXCEPT !.opVers =
                         (pos :> getTopStackVer(r.stk, ns[i].mr)) @@ @]
                ELSE ns[i]]]

\* history: the return mus of fn were renamed at a return of block bb
MarkRetAt(r, fn, bb) ==
    LET ns == r.nodes
    IN  [r EXCEPT !.nodes =
            [i \in DOMAIN ns |->
                IF i \in FunNodes(ns, "RetMU", fn) THEN [ns[i] EXCEPT !.at = bb]
                ELSE ns[i]]]

RenameInstChiFirst(r, fn, bb, idx, inst) ==
    LET r1 == IF inst.op = "load"
                  THEN RenameMuSet(r, NodesAt(r.nodes, "LoadMU", fn, bb, idx))
              ELSE IF inst.op = "store"
                  THEN RenameChiSet(r, NodeSetSeq(NodesAt(r.nodes, "StoreCHI", fn, bb, idx)))
              ELSE r
    IN  IF inst.op = "call"
        THEN LET r2 == IF inst.mod # {}
                           THEN RenameChiSet(r1, NodeSetSeq(NodesAt(r1.nodes, "CallCHI", fn, bb, idx)))
                           ELSE r1
             IN  IF inst.ref # {}
                     THEN RenameMuSet(r2, NodesAt(r2.nodes, "CallMU", fn, bb, idx))
                     ELSE r2
        ELSE IF inst.op = "ret"
        THEN MarkRetAt(RenameMuSet(r1, FunNodes(r1.nodes, "RetMU", fn)), fn, bb)
        ELSE r1

\* the mus and chis of one instruction are renamed
renameInst(r, fn, bb, idx, inst) ==
    LET r1 == IF inst.op = "load"
                  THEN RenameMuSet(r, NodesAt(r.nodes, "LoadMU", fn, bb, idx))
              ELSE IF inst.op = "store"
                  THEN RenameChiSet(r, NodeSetSeq(NodesAt(r.nodes, "StoreCHI", fn, bb, idx)))
              ELSE r
    IN  IF inst.op = "call"
        THEN LET r2 == IF inst.ref # {}
                           THEN RenameMuSet(r1, NodesAt(r1.nodes, "CallMU", fn, bb, idx))
                           ELSE r1
             IN  IF inst.mod # {}
                     THEN RenameChiSet(r2, NodeSetSeq(NodesAt(r2.nodes, "CallCHI", fn, bb, idx)))
                     ELSE r2
        ELSE IF inst.op = "ret"
        THEN MarkRetAt(RenameMuSet(r1, FunNodes(r1.nodes, "RetMU", fn)), fn, bb)
        ELSE r1

RECURSIVE renameInsts(_, _, _, _, _)
renameInsts(r, fn, f, bb, idx) ==
    IF idx > Len(f.code[bb]) THEN r
    ELSE renameInsts(renameInst(r, fn, bb, idx, f.code[bb][idx]), fn, f, bb, idx + 1)

FillSuccPhiOpsFirstSlot(r, fn, f, bb, succ) ==
    IF getPHISet(r.nodes, fn, succ) # {}
    THEN RenamePhiOps(r, getPHISet(r.nodes, fn, succ), 0)
    ELSE r

\* the operand of block bb is filled in the phis of its successor succ
fillSuccPhiOps(r, fn, f, bb, succ) ==
    LET pos == getBBPredecessorPos(f, bb, succ)
    IN  IF getPHISet(r.nodes, fn, succ) # {}
        THEN RenamePhiOps(r, getPHISet(r.nodes, fn, succ), pos)
        ELSE r

RECURSIVE fillSuccs(_, _, _, _, _)
fillSuccs(r, fn, f, bb, succs) ==
    IF succs = << >> THEN r
    ELSE fillSuccs(fillSuccPhiOps(r, fn, f, bb, Head(succs)), fn, f, bb, Tail(succs))

RenameBBFillBeforeInsts(ns, ctr, stk, fn, f, bb) ==
    LET r0 == [nodes |-> ns, ctr |-> ctr, stk |-> stk, memRegs |-> << >>]
        r1 == IF getPHISet(ns, fn, bb) # {}
                  THEN RenamePhiRes(r0, NodeSetSeq(getPHISet(ns, fn, bb)))
                  ELSE r0
        r2 == fillSuccs(r1, fn, f, bb, SortedSeq(f.succ[bb]))
    IN  renameInsts(r2, fn, f, bb, 1)

\* SSARenameBB up to the recursion into the dominator-tree children
renameBB(ns, ctr, stk, fn, f, bb) ==
    LET r0 == [nodes |-> ns, ctr |-> ctr, stk |-> stk, memRegs |-> << >>]
        r1 == IF getPHISet(ns, fn, bb) # {}
                  THEN RenamePhiRes(r0, NodeSetSeq(getPHISet(ns, fn, bb)))
                  ELSE r0
        r2 == renameInsts(r1, fn, f, bb, 1)
    IN  fillSuccs(r2, fn, f, bb, SortedSeq(f.succ[bb]))

PopVerStackNoPop(stk, mr) == stk

PopVerStacksOnce(stk, memRegs) ==
    IF memRegs = << >> THEN stk
    ELSE [stk EXCEPT ![memRegs[Len(memRegs)]] = SubSeq(@, 1, Len(@) - 1)]

\* mr2VerStackMap[mr].pop_back()
popVerStack(stk, mr) == [stk EXCEPT ![mr] = SubSeq(@, 1, Len(@) - 1)]

\* the pop loop that ends SSARenameBB
RECURSIVE popVerStacks(_, _)
popVerStacks(stk, memRegs) ==
    IF memRegs = << >> THEN stk
    ELSE popVerStacks(popVerStack(stk, memRegs[Len(memRegs)]),
                      SubSeq(memRegs, 1, Len(memRegs) - 1))

\* ------------------------------------------------------------------------
\* Actions
\* ------------------------------------------------------------------------
NoRet == [bb |-> 0, memRegs |-> << >>, entryStk |-> << >>, preStk |-> << >>]

ZeroCount == [mr \in MRs |-> 0]

\* insertPHI is not running
PhiIdle == [mrs |-> << >>, mr |-> "", bbs |-> << >>, has |-> << >>]

\* the dominance frontier and the dominator trees of a function, as LLVM may
\* compute them
DomInfosOf(f) ==
    IF isExtCall(f) THEN {[df |-> << >>, dt |-> << >>]}
    ELSE {[df |-> DominanceFrontier(f), dt |-> t] : t \in DominatorTrees(f)}

\* the blocks lie at any addresses
AddrEnv == order \in {[CanonOrder EXCEPT !.blocks = p] : p \in BlockAddrs(domInfo)}

\* the caller passes the dominance data of the function
CallerEnv ==
    /\ domInfo \in ChoiceMaps([fn \in DOMAIN prog |-> DomInfosOf(prog[fn])])
    /\ AddrEnv

\* what no step of a build changes
inputs == <<prog, domInfo, session>>

\* what no step of a build changes but those that allocate nodes
env == <<inputs, order>>

\* operator new: the nodes allocated in this step, which leaves the nodes ns,
\* lie at any addresses. Addresses are compared inside a chi set or phi set
\* only, so order.nodes lists the nodes set by set
Allocated(ns) ==
    \E made \in {ns} : \E sets \in {NodeSets(made)} :
        \E m \in ChoiceMaps([S \in sets |-> AddrExtensions(order.nodes, S)]) :
            order' = [order EXCEPT !.nodes = FlattenSeqs(m)]

InitState ==
    /\ pc = "idle"
    /\ cur = NoFun
    /\ built = [fn \in DOMAIN prog |-> 0]
    /\ df = << >>
    /\ dt = << >>
    /\ usedRegs = {}
    /\ reg2BBMap = [mr \in MRs |-> << >>]
    /\ mr2CounterMap = << >>
    /\ mr2VerStackMap = << >>
    /\ nodes = << >>
    /\ callStack = << >>
    /\ pushCount = ZeroCount
    /\ popCount = ZeroCount
    /\ lastRet = NoRet
    /\ warnings = 0
    /\ phiLoop = PhiIdle
    /\ session = [stat |-> TRUE, deleted |-> {}]

\* a session that builds one function
Init ==
    /\ \E succ \in CFGShapes : \E preds \in PredOrders(succ) :
           \E body \in Bodies(Len(succ), MaxInstrs) :
               \E rets \in SUBSET ExitBlocks(succ) :
                   prog = [fn \in {FunSeq[1]} |-> MkFun(succ, preds, body, rets)]
    /\ CallerEnv
    /\ InitState

\* a session that builds two functions, which return from their exit blocks
InitSession ==
    /\ \E s1 \in SessionShapes : \E p1 \in PredOrders(s1) :
           \E b1 \in Bodies(Len(s1), MaxSessionInstrs) :
               \E s2 \in SecondShapes : \E p2 \in PredOrders(s2) :
                   \E b2 \in Bodies(Len(s2), MaxSessionInstrs) :
                       prog = [fn \in FunIds |->
                                  IF fn = FunSeq[1] THEN MkFun(s1, p1, b1, ExitBlocks(s1))
                                  ELSE MkFun(s2, p2, b2, ExitBlocks(s2))]
    /\ CallerEnv
    /\ InitState

\* the builds so far of functions that were built before
RECURSIVE Rebuilds(_)
Rebuilds(b) ==
    IF DOMAIN b = {} THEN 0
    ELSE LET fn == CHOOSE x \in DOMAIN b : TRUE
             again == IF b[fn] > 1 THEN b[fn] - 1 ELSE 0
         IN  again + Rebuilds([x \in DOMAIN b \ {fn} |-> b[x]])

\* the caller builds the functions of the module in the order it likes, and
\* may build a function again (while the heap is small: every build adds its
\* nodes to those of the builds before)
NextToBuild(fn) ==
    /\ fn \in DOMAIN prog
    /\ built[fn] > 0 => (Rebuilds(built) < MaxRebuilds /\ Len(nodes) <= MaxHeap)

\* buildMemSSA(fun, f, t) up to the first use of stat (line 126). On an
\* external function the assertion ends the run before anything is written;
\* the same source built without assertions (NDEBUG) goes on.
\* setCurrentDFDT(f, t) makes f and t the current dominance data and clears the
\* two per-function maps.
\* After destroy() stat is NULL and stat->getClk ends the run.
buildMemSSA(fn) ==
    \/ /\ isExtCall(prog[fn])
       /\ pc' = "failed"
       /\ UNCHANGED <<env, cur, built, df, dt, usedRegs, reg2BBMap, mr2CounterMap,
                      mr2VerStackMap, nodes, callStack, pushCount, popCount,
                      lastRet, warnings, phiLoop>>
    \/ /\ cur' = fn
       /\ df' = domInfo[fn].df
       /\ dt' = domInfo[fn].dt
       /\ usedRegs' = {}
       /\ reg2BBMap' = [mr \in MRs |-> << >>]
       /\ pc' = IF session.stat THEN "createMUCHI" ELSE "failed"
       /\ pushCount' = ZeroCount
       /\ popCount' = ZeroCount
       /\ lastRet' = NoRet
       /\ UNCHANGED <<env, built, mr2CounterMap, mr2VerStackMap, nodes, callStack,
                      warnings, phiLoop>>

\* the caller builds a function of the module
Build(fn) ==
    /\ pc = "idle"
    /\ NextToBuild(fn)
    /\ buildMemSSA(fn)

\* createMUCHI(fun); on an external function (a build without assertions
\* came this far) the walk starts on a function without entry block and the
\* run ends
CreateMUCHI ==
    /\ pc = "createMUCHI"
    /\ IF isExtCall(prog[cur])
       THEN /\ pc' = "failed"
            /\ UNCHANGED <<nodes, usedRegs, reg2BBMap, mr2CounterMap, mr2VerStackMap,
                           pushCount, order>>
       ELSE /\ LET s == createMUCHI([nodes |-> nodes, usedRegs |-> usedRegs,
                                     reg2BBMap |-> reg2BBMap, varKills |-> {},
                                     ctr |-> mr2CounterMap, stk |-> mr2VerStackMap],
                                    cur, prog[cur], dt)
               IN  /\ nodes' = s.nodes
                   /\ usedRegs' = s.usedRegs
                   /\ reg2BBMap' = s.reg2BBMap
                   /\ mr2CounterMap' = s.ctr
                   /\ mr2VerStackMap' = s.stk
                   /\ pushCount' = [mr \in MRs |->
                                       IF mr \in s.usedRegs THEN Len(s.stk[mr]) ELSE 0]
                   /\ Allocated(s.nodes)
            /\ pc' = "insertPHI"
    /\ lastRet' = NoRet
    /\ UNCHANGED <<inputs, cur, built, df, dt, callStack, popCount, warnings, phiLoop>>

InsertPHI ==
    /\ pc = "insertPHI"
    /\ LET s == insertPHI(nodes, usedRegs, cur, prog[cur], reg2BBMap, df)
       IN  /\ nodes' = s.nodes
           /\ usedRegs' = s.usedRegs
           /\ warnings' = warnings + s.wrn
           /\ Allocated(s.nodes)
    /\ pc' = "SSARename"
    /\ lastRet' = NoRet
    /\ UNCHANGED <<inputs, cur, built, df, dt, reg2BBMap, mr2CounterMap,
                   mr2VerStackMap, callStack, pushCount, popCount, phiLoop>>

\* insertPHI followed step by step: it begins; bb2MRSetMap is empty and the
\* loop over usedRegs is at its first region
InsertPHIBegin ==
    /\ pc = "insertPHI"
    /\ pc' = "insertPHILoop"
    /\ phiLoop' = [mrs |-> MRSetSeq(usedRegs), mr |-> "", bbs |-> << >>,
                   has |-> NoPhiYet(prog[cur])]
    /\ lastRet' = NoRet
    /\ UNCHANGED <<env, cur, built, df, dt, usedRegs, reg2BBMap, mr2CounterMap,
                   mr2VerStackMap, nodes, callStack, pushCount, popCount, warnings>>

\* the worklist of the region is empty: the loop over usedRegs takes the next
\* region and copies its defining blocks
InsertPHIRegion ==
    /\ pc = "insertPHILoop"
    /\ phiLoop.bbs = << >>
    /\ phiLoop.mrs # << >>
    /\ phiLoop' = [phiLoop EXCEPT !.mr = Head(phiLoop.mrs), !.mrs = Tail(@),
                                  !.bbs = WorklistSeq(reg2BBMap[Head(phiLoop.mrs)])]
    /\ UNCHANGED <<env, pc, cur, built, df, dt, usedRegs, reg2BBMap, mr2CounterMap,
                   mr2VerStackMap, nodes, callStack, pushCount, popCount, lastRet,
                   warnings>>

\* one iteration of the worklist loop
InsertPHIPop ==
    /\ pc = "insertPHILoop"
    /\ phiLoop.bbs # << >>
    /\ LET s == phiPop([nodes |-> nodes, usedRegs |-> usedRegs, has |-> phiLoop.has,
                        bbs |-> phiLoop.bbs, wrn |-> warnings],
                       cur, phiLoop.mr, df)
       IN  /\ nodes' = s.nodes
           /\ usedRegs' = s.usedRegs
           /\ warnings' = s.wrn
           /\ phiLoop' = [phiLoop EXCEPT !.has = s.has, !.bbs = s.bbs]
           /\ Allocated(s.nodes)
    /\ UNCHANGED <<inputs, pc, cur, built, df, dt, reg2BBMap, mr2CounterMap,
                   mr2VerStackMap, callStack, pushCount, popCount, lastRet>>

\* both loops are over: insertPHI returns
InsertPHIEnd ==
    /\ pc = "insertPHILoop"
    /\ phiLoop.bbs = << >>
    /\ phiLoop.mrs = << >>
    /\ pc' = "SSARename"
    /\ phiLoop' = PhiIdle
    /\ UNCHANGED <<env, cur, built, df, dt, usedRegs, reg2BBMap, mr2CounterMap,
                   mr2VerStackMap, nodes, callStack, pushCount, popCount, lastRet,
                   warnings>>

StackLen(stk, mr) == IF mr \in DOMAIN stk THEN Len(stk[mr]) ELSE 0

\* an invocation SSARenameBB(bb) runs up to its first recursive call
EnterBB(bb, outer) ==
    LET r == renameBB(nodes, mr2CounterMap, mr2VerStackMap, cur, prog[cur], bb)
    IN  /\ nodes' = r.nodes
        /\ mr2CounterMap' = r.ctr
        /\ mr2VerStackMap' = r.stk
        /\ callStack' = Append(outer, [bb |-> bb, memRegs |-> r.memRegs, next |-> 1,
                                       entryStk |-> mr2VerStackMap])
        /\ pushCount' = [mr \in MRs |->
                            pushCount[mr] + StackLen(r.stk, mr) - StackLen(mr2VerStackMap, mr)]
        /\ lastRet' = NoRet
        /\ UNCHANGED <<env, cur, built, df, dt, usedRegs, reg2BBMap, popCount,
                       warnings, phiLoop>>

\* SSARename: SSARenameBB(entry block)
SSARename ==
    /\ pc = "SSARename"
    /\ pc' = "SSARenameBB"
    /\ EnterBB(EntryBlock, << >>)

\* the children of bb in the dominator tree
DTChildren(bb) == IF bb \in DOMAIN dt THEN dt[bb] ELSE << >>

\* the innermost invocation calls SSARenameBB on its next dominator-tree child
SSARenameBBChild ==
    /\ pc = "SSARenameBB"
    /\ callStack # << >>
    /\ LET top == callStack[Len(callStack)]
       IN  /\ top.next <= Len(DTChildren(top.bb))
           /\ EnterBB(DTChildren(top.bb)[top.next],
                      [callStack EXCEPT ![Len(callStack)].next = @ + 1])
    /\ UNCHANGED pc

\* the innermost invocation has visited its children: it pops and returns
SSARenameBBReturn ==
    /\ pc = "SSARenameBB"
    /\ callStack # << >>
    /\ LET top == callStack[Len(callStack)]
           stk == popVerStacks(mr2VerStackMap, top.memRegs)
       IN  /\ top.next > Len(DTChildren(top.bb))
           /\ mr2VerStackMap' = stk
           /\ popCount' = [mr \in MRs |->
                              popCount[mr] + StackLen(mr2VerStackMap, mr) - StackLen(stk, mr)]
           /\ lastRet' = [bb |-> top.bb, memRegs |-> top.memRegs,
                          entryStk |-> top.entryStk, preStk |-> mr2VerStackMap]
    /\ callStack' = SubSeq(callStack, 1, Len(callStack) - 1)
    /\ pc' = IF Len(callStack) = 1 THEN "idle" ELSE "SSARenameBB"
    /\ built' = IF Len(callStack) = 1 THEN [built EXCEPT ![cur] = @ + 1] ELSE built
    /\ UNCHANGED <<env, cur, df, dt, usedRegs, reg2BBMap, mr2CounterMap,
                   nodes, pushCount, warnings, phiLoop>>

\* destroy(), called between builds: every node is deleted (the node maps
\* keep their entries, which dangle from now on) and mrGen, stat and pta
\* become NULL; counters, stacks and versions stay. A second call deletes
\* the dangling nodes again, which may end the run or go unnoticed
Destroy ==
    /\ pc = "idle"
    /\ IF session.deleted # {}
       THEN /\ pc' \in {"failed", pc}
            /\ UNCHANGED session
       ELSE /\ session' = [stat |-> FALSE, deleted |-> 1..Len(nodes)]
            /\ UNCHANGED pc
    /\ UNCHANGED <<prog, domInfo, order, cur, built, df, dt, usedRegs, reg2BBMap,
                   mr2CounterMap, mr2VerStackMap, nodes, callStack, pushCount,
                   popCount, lastRet, warnings, phiLoop>>

Next ==
    \/ \E fn \in FunIds : Build(fn)
    \/ CreateMUCHI
    \/ InsertPHI
    \/ SSARename
    \/ SSARenameBBChild
    \/ SSARenameBBReturn
    \/ Destroy

Spec == Init /\ [][Next]_vars

SpecSession == InitSession /\ [][Next]_vars

\* loads, stores and an intrinsic call site
UntouchedMenu ==
    { Instr("load", {"r1"}, {}),
      Instr("store", {}, {"r1"}),
      Instr("store", {}, {"r2"}),
      IntrinsicCall }

\* the shapes of the second function: one block; dead block 3 jumps to 2
UntouchedShapes ==
    { << {} >>,
      << {2}, {}, {2} >> }

\* a session that builds a one-block function, then a function that may hold
\* an intrinsic call site and a dead block; both return from their exit blocks
InitUntouched ==
    /\ \E s1 \in SecondShapes : \E p1 \in PredOrders(s1) :
           \E b1 \in BodiesOver(UntouchedMenu, Len(s1), MaxSessionInstrs) :
               \E s2 \in UntouchedShapes : \E p2 \in PredOrders(s2) :
                   \E b2 \in BodiesOver(UntouchedMenu, Len(s2), MaxSessionInstrs) :
                       prog = [fn \in FunIds |->
                                  IF fn = FunSeq[1] THEN MkFun(s1, p1, b1, ExitBlocks(s1))
                                  ELSE MkFun(s2, p2, b2, ExitBlocks(s2))]
    /\ CallerEnv
    /\ InitState

SpecUntouched == InitUntouched /\ [][Next]_vars

\* a session that builds one function, which its caller may build a second time
InitRebuild ==
    /\ \E succ \in SessionShapes : \E preds \in PredOrders(succ) :
           \E body \in Bodies(Len(succ), MaxSessionInstrs) :
               \E rets \in SUBSET ExitBlocks(succ) :
                   prog = [fn \in {FunSeq[1]} |-> MkFun(succ, preds, body, rets)]
    /\ CallerEnv
    /\ InitState

SpecRebuild == InitRebuild /\ [][Next]_vars

\* a session over two functions, one of them an external declaration
InitOpaque ==
    /\ \E s1 \in SessionShapes : \E p1 \in PredOrders(s1) :
           \E b1 \in Bodies(Len(s1), MaxSessionInstrs) :
               \E r1 \in SUBSET ExitBlocks(s1) : \E x \in FunIds :
                   prog = [fn \in FunIds |->
                              IF fn = x THEN ExtFun ELSE MkFun(s1, p1, b1, r1)]
    /\ CallerEnv
    /\ InitState

SpecOpaque == InitOpaque /\ [][Next]_vars

\* stores: the instructions that make a block a defining block
PhiMenu ==
    { Instr("store", {}, {"r1"}),
      Instr("store", {}, {"r2"}) }

\* straight line of three
PhiShapes == { << {2}, {3}, {} >> }

\* the frontier sets a caller may pass for block b of n blocks: empty, the
\* block itself, the next block (the first after the last), every block
PhiFrontiers(n, b) == { {}, {b}, {(b % n) + 1}, 1..n }

\* the dominance frontier maps a caller may pass for n blocks: a frontier set
\* for some of the blocks, none for the others
PhiDFs(n) ==
    UNION {{m \in [D -> SUBSET (1..n)] : \A b \in D : m[b] \in PhiFrontiers(n, b)}
           : D \in SUBSET (1..n)}

\* the frontier sets a caller may pass for block b of a chain of n blocks:
\* the next block or every block; for the last block the empty set
ChainFrontiers(n, b) == IF b = n THEN { {} } ELSE { {b + 1}, 1..n }

\* the dominance frontier maps a caller may pass for a chain of n blocks: a
\* frontier set for some of the blocks, none for the others
ChainDFs(n) ==
    UNION {{m \in [D -> SUBSET (1..n)] : \A b \in D : m[b] \in ChainFrontiers(n, b)}
           : D \in SUBSET (1..n)}

\* a session that builds one function with the dominance frontier map its
\* caller passes: blocks without entry, frontiers that hold every block
InitPhi ==
    /\ \E succ \in PhiShapes : \E preds \in PredOrders(succ) :
           \E body \in BodiesOver(PhiMenu, Len(succ), MaxPhiInstrs) :
               prog = [fn \in {FunSeq[1]} |-> MkFun(succ, preds, body, ExitBlocks(succ))]
    /\ \E m \in ChainDFs(Len(prog[FunSeq[1]].succ)) :
           \E t \in DominatorTrees(prog[FunSeq[1]]) :
               domInfo = [fn \in DOMAIN prog |-> [df |-> m, dt |-> t]]
    /\ AddrEnv
    /\ InitState

\* the steps of a session in which insertPHI is followed step by step
NextPhi ==
    \/ \E fn \in FunIds : Build(fn)
    \/ CreateMUCHI
    \/ InsertPHIBegin
    \/ InsertPHIRegion
    \/ InsertPHIPop
    \/ InsertPHIEnd
    \/ SSARename
    \/ SSARenameBBChild
    \/ SSARenameBBReturn
    \/ Destroy

SpecPhi == InitPhi /\ [][NextPhi]_vars

\* stores, one of them to two regions
PhiLiveMenu ==
    { Instr("store", {}, {"r1"}),
      StoreBoth }

\* straight line of two blocks
PhiLiveShapes == { << {2}, {} >> }

\* a session that builds one two-block function with the dominance frontier
\* map its caller passes, whatever it is
InitPhiLive ==
    /\ \E succ \in PhiLiveShapes : \E preds \in PredOrders(succ) :
           \E body \in BodiesOver(PhiLiveMenu, Len(succ), MaxPhiLiveInstrs) :
               prog = [fn \in {FunSeq[1]} |-> MkFun(succ, preds, body, ExitBlocks(succ))]
    /\ \E m \in PhiDFs(Len(prog[FunSeq[1]].succ)) :
           \E t \in DominatorTrees(prog[FunSeq[1]]) :
               domInfo = [fn \in DOMAIN prog |-> [df |-> m, dt |-> t]]
    /\ AddrEnv
    /\ InitState

\* the steps of insertPHI
InsertPHISteps == InsertPHIBegin \/ InsertPHIRegion \/ InsertPHIPop \/ InsertPHIEnd

\* insertPHI is not suspended: it runs on while it has a step to take
SpecPhiLive == InitPhiLive /\ [][NextPhi]_vars /\ WF_vars(InsertPHISteps)

\* instructions whose MRSets hold two regions, and single-region ones
OrderMenu ==
    { StoreBoth,
      Instr("call", {"r1", "r2"}, {"r1"}),
      Instr("load", {"r1"}, {}),
      Instr("store", {}, {"r2"}) }

\* if-then
OrderShapes == { << {2, 3}, {3}, {} >> }

\* iteration orders of a run: of the regions of an MRSet and of the worklist
\* of defining blocks, with the blocks at any addresses
Orders ==
    {[mrs |-> m, bbs |-> w, blocks |-> p, nodes |-> << >>] :
        m \in {MRSeq, Reverse(MRSeq)}, w \in {"asc", "desc"}, p \in BlockAddrs(domInfo)}

\* a session that builds one function, under any of the iteration orders
InitOrder ==
    /\ \E succ \in OrderShapes : \E preds \in PredOrders(succ) :
           \E body \in BodiesOver(OrderMenu, Len(succ), MaxOrderInstrs) :
               prog = [fn \in {FunSeq[1]} |-> MkFun(succ, preds, body, ExitBlocks(succ))]
    /\ domInfo \in ChoiceMaps([fn \in DOMAIN prog |-> DomInfosOf(prog[fn])])
    /\ order \in Orders
    /\ InitState

SpecOrder == InitOrder /\ [][Next]_vars

\* buildMemSSA of the current function has returned, and the session was not
\* torn down since
Returned == pc = "idle" /\ cur # NoFun /\ session.stat

\* the current function is being built, or was built, for the first time in
\* the session
FirstBuild == cur # NoFun /\ built[cur] = IF pc = "idle" THEN 1 ELSE 0

\* the first build of the current function has returned
BuildDone == Returned /\ FirstBuild

\* ------------------------------------------------------------------------
\* Properties
\* ------------------------------------------------------------------------
CurFun == prog[cur]

\* nodes of function fn of the given kinds
KindNodes(fn, kinds) == {i \in NodeIds : nodes[i].fun = fn /\ nodes[i].kind \in kinds}

\* def nodes of fn for region mr in block bb (phis, store chis, call chis)
BlockDefs(fn, bb, mr) ==
    {i \in KindNodes(fn, {"PHI", "StoreCHI", "CallCHI"}) :
        nodes[i].bb = bb /\ nodes[i].mr = mr}

\* regions some load, store or non-intrinsic call site of the blocks bbs touches
TouchedIn(f, bbs) ==
    UNION {UNION {f.code[b][i].ref \cup f.code[b][i].mod :
                     i \in {k \in 1..Len(f.code[b]) :
                               f.code[b][k].op \in {"load", "store", "call"}}}
           : b \in bbs}

\* C3: after one build of a function, every def node of the function (entry
\* chi, store chi, call chi, phi) carries an output version of its region, and
\* no two distinct def nodes of the function carry the same (region, version
\* number).
C3_SingleProducer ==
    BuildDone =>
        \A i \in KindNodes(cur, DefKinds) :
            /\ nodes[i].resVer.mr = nodes[i].mr
            /\ \A j \in KindNodes(cur, DefKinds) :
                   i # j => ~VerEq(nodes[i].resVer, nodes[j].resVer)

\* a build that ended with an entry chi, a store chi and a phi of one region
C3_Witness ==
    /\ BuildDone
    /\ \E i, j, k \in KindNodes(cur, DefKinds) :
           /\ nodes[i].kind = "EntryCHI" /\ nodes[j].kind = "StoreCHI"
           /\ nodes[k].kind = "PHI"
           /\ nodes[i].mr = nodes[j].mr /\ nodes[j].mr = nodes[k].mr

\* C6 as stated: when buildMemSSA returns, every used region has as many pops
\* as pushes (the entry chi's pushes included) and an empty version stack.
C6_StackEmptyAtEnd ==
    Returned =>
        \A mr \in usedRegs :
            pushCount[mr] = popCount[mr] /\ mr2VerStackMap[mr] = << >>

\* C6 amended: when buildMemSSA returns (from the first or from a later build
\* of the function), every used region has had exactly two more pushes than
\* pops in the build, and its version stack holds exactly the two versions
\* the entry chi of the build pushed (its operand, version 0, below its
\* result, version 1).
C6_StackBalance ==
    Returned =>
        \A mr \in usedRegs :
            /\ pushCount[mr] = popCount[mr] + 2
            /\ \E e \in KindNodes(cur, {"EntryCHI"}) :
                   /\ nodes[e].mr = mr
                   /\ mr2VerStackMap[mr] = <<nodes[e].opVer, nodes[e].resVer>>
                   /\ nodes[e].opVer.version = 0
                   /\ nodes[e].resVer.version = 1

\* a build that ended after at least two pops from the stack of a used region
C6_Witness ==
    /\ BuildDone
    /\ \E mr \in usedRegs : popCount[mr] >= 2

\* C7: when an invocation of SSARenameBB on block b has returned, every
\* region's version stack is what it was when the invocation began, and the
\* pops it made per region are as many as b has phis, store chis and call chis
\* of the region.
C7_BlockRestoresStacks ==
    lastRet.bb # 0 =>
        /\ mr2VerStackMap = lastRet.entryStk
        /\ \A mr \in DOMAIN mr2VerStackMap :
               Len(lastRet.preStk[mr]) - Len(mr2VerStackMap[mr])
                   = Cardinality(BlockDefs(cur, lastRet.bb, mr))

\* an invocation that pushed versions and recursed into children has returned
C7_Witness ==
    /\ lastRet.bb # 0
    /\ lastRet.memRegs # << >>
    /\ DTChildren(lastRet.bb) # << >>
    /\ \E mr \in usedRegs : Cardinality(BlockDefs(cur, lastRet.bb, mr)) >= 2

\* C8: after a function was built once, every used region has exactly one
\* entry chi; it has exactly one return mu if a return instruction is
\* reachable from the entry of the function, and none otherwise.
C8_EntryReturnBootstrap ==
    BuildDone =>
        \A mr \in usedRegs :
            /\ Cardinality({i \in KindNodes(cur, {"EntryCHI"}) : nodes[i].mr = mr}) = 1
            /\ Cardinality({i \in KindNodes(cur, {"RetMU"}) : nodes[i].mr = mr})
                   = IF \E b \in ReachableBBs(CurFun) :
                            \E i \in 1..Len(CurFun.code[b]) : CurFun.code[b][i].op = "ret"
                     THEN 1 ELSE 0

\* a build of a function that uses a region and never reaches a return,
\* although it has a return instruction in a dead block
C8_Witness ==
    /\ BuildDone
    /\ usedRegs # {}
    /\ functionDoesNotRet(CurFun)
    /\ \E b \in BlocksOf(CurFun) :
           \E i \in 1..Len(CurFun.code[b]) : CurFun.code[b][i].op = "ret"

\* C9: SSARenameBB is never invoked on a block unreachable from the entry;
\* after a build (the first or a later one of the function) no mu, chi or phi
\* of the function sits in an unreachable block, the used regions are those
\* touched in reachable blocks, the defining blocks are reachable, and the
\* version counter of a used region counts the entry chi's two versions and
\* one version per def node.
C9_UnreachableSkipped ==
    /\ (callStack # << >> =>
            LET reach == ReachableBBs(CurFun)
            IN  \A k \in 1..Len(callStack) : callStack[k].bb \in reach)
    /\ Returned =>
        /\ \A i \in KindNodes(cur, {"LoadMU", "CallMU", "StoreCHI", "CallCHI", "PHI"}) :
               nodes[i].bb \in ReachableBBs(CurFun)
        /\ usedRegs = TouchedIn(CurFun, ReachableBBs(CurFun))
        /\ \A mr \in MRs : \A k \in 1..Len(reg2BBMap[mr]) :
               reg2BBMap[mr][k] \in ReachableBBs(CurFun)
        /\ \A mr \in usedRegs :
               mr2CounterMap[mr] = 2 +
                   Cardinality({i \in KindNodes(cur, {"PHI", "StoreCHI", "CallCHI"}) :
                                   nodes[i].mr = mr /\ nodes[i].bb \in ReachableBBs(CurFun)})

\* a build of a function whose dead block stores to a region nothing else touches
C9_Witness ==
    /\ BuildDone
    /\ \E b \in BlocksOf(CurFun) \ ReachableBBs(CurFun) :
           \E i \in 1..Len(CurFun.code[b]) :
               /\ CurFun.code[b][i].op = "store"
               /\ CurFun.code[b][i].mod \cap usedRegs = {}
    /\ usedRegs # {}

\* phi insertion of the current build is over
PhisInserted == FirstBuild /\ pc \in {"SSARename", "SSARenameBB", "idle"}

\* blocks of fn that hold a store chi or call chi of mr
LocalDefBlocks(fn, mr) ==
    {nodes[i].bb : i \in {k \in KindNodes(fn, {"StoreCHI", "CallCHI"}) : nodes[k].mr = mr}}

\* iterated dominance frontier of the blocks S: least X with X = DF(S \cup X)
RECURSIVE IDFClosure(_, _, _)
IDFClosure(dfm, S, X) ==
    LET Y == UNION {dfm[b] : b \in (S \cup X) \cap DOMAIN dfm}
    IN  IF Y = X THEN X ELSE IDFClosure(dfm, S, Y)

\* the iterated dominance frontier, in the current function, of the blocks
\* that define mr
IDF(mr) == IDFClosure(df, LocalDefBlocks(cur, mr), {})

PhisAt(fn, bb, mr) == {i \in KindNodes(fn, {"PHI"}) : nodes[i].bb = bb /\ nodes[i].mr = mr}

\* C4: once insertPHI has run in one build of a function (its first), a
\* block of the function holds exactly one phi of a used region if it is in
\* the iterated dominance frontier of the blocks that hold a store chi or
\* call chi of the region, and holds no phi of the region otherwise.
C4_PhiMinimality ==
    PhisInserted =>
        \A mr \in usedRegs :
            LET idf == IDF(mr)
            IN  \A b \in BlocksOf(CurFun) :
                    Cardinality(PhisAt(cur, b, mr)) = IF b \in idf THEN 1 ELSE 0

\* phis were inserted, one of them in a block that is in the frontier of no
\* defining block but in the frontier of another phi block
C4_Witness ==
    /\ PhisInserted
    /\ \E mr \in usedRegs : \E b \in IDF(mr) :
           /\ PhisAt(cur, b, mr) # {}
           /\ \A d \in LocalDefBlocks(cur, mr) : b \notin df[d]

\* C5 as stated: after a build every phi has an operand for every
\* predecessor of its block, unreachable predecessors included.
C5_AllSlotsFilled ==
    Returned =>
        \A i \in KindNodes(cur, {"PHI"}) :
            \A pos \in 0..(Len(Preds(CurFun, nodes[i].bb)) - 1) :
                pos \in DOMAIN nodes[i].opVers

\* C5 amended: after a build (the first or a later one of the function) every
\* phi has an operand, a version of the phi's region, for every predecessor of
\* its block that is reachable from the entry block, and no operand for a
\* predecessor that is unreachable.
C5_PhiCompleteness ==
    Returned =>
        \A i \in KindNodes(cur, {"PHI"}) :
            LET ps == Preds(CurFun, nodes[i].bb)
            IN  /\ DOMAIN nodes[i].opVers =
                       {pos \in 0..(Len(ps) - 1) : ps[pos + 1] \in ReachableBBs(CurFun)}
                /\ \A pos \in DOMAIN nodes[i].opVers :
                       nodes[i].opVers[pos].mr = nodes[i].mr

\* a build ended with a phi whose block has a reachable predecessor that is
\* not the first one and an unreachable predecessor
C5_Witness ==
    /\ BuildDone
    /\ \E i \in KindNodes(cur, {"PHI"}) :
           LET ps == Preds(CurFun, nodes[i].bb)
           IN  /\ \E k \in 1..Len(ps) : ps[k] \notin ReachableBBs(CurFun)
               /\ \E k \in 2..Len(ps) : ps[k] \in ReachableBBs(CurFun)

\* the def nodes of fn whose output version equals v
Producers(fn, v) == {d \in KindNodes(fn, DefKinds) : VerEq(nodes[d].resVer, v)}

\* the block a def node sits in, the entry chi counting as in the entry block
DefBlock(d) == IF nodes[d].kind = "EntryCHI" THEN EntryBlock ELSE nodes[d].bb

\* version v is produced by a def node whose block dominates or is block bb
ProducerDominates(v, bb) ==
    \E d \in Producers(cur, v) : Dominates(CurFun, DefBlock(d), bb)

\* C2: after a build (the first or a later one of the function), the operand
\* of every load mu, call mu, store chi and call chi, the operand of every
\* return mu, and every operand of every phi (taken at the predecessor it
\* belongs to) is a version produced by a def node whose block dominates or
\* equals the block of the use.
C2_Dominance ==
    Returned =>
        /\ \A u \in KindNodes(cur, {"LoadMU", "CallMU", "StoreCHI", "CallCHI"}) :
               ProducerDominates(nodes[u].opVer, nodes[u].bb)
        /\ \A u \in KindNodes(cur, {"RetMU"}) :
               ProducerDominates(nodes[u].opVer, nodes[u].at)
        /\ \A u \in KindNodes(cur, {"PHI"}) :
               \A pos \in DOMAIN nodes[u].opVers :
                   ProducerDominates(nodes[u].opVers[pos],
                                     Preds(CurFun, nodes[u].bb)[pos + 1])

\* a build ended with a chi of a region in one block and a mu or chi of the
\* region in another block, neither block dominating the other
C2_Witness ==
    /\ BuildDone
    /\ \E u, c \in KindNodes(cur, {"LoadMU", "CallMU", "StoreCHI", "CallCHI"}) :
           /\ nodes[c].kind \in CHIKinds
           /\ nodes[u].mr = nodes[c].mr
           /\ nodes[u].bb # nodes[c].bb
           /\ ~Dominates(CurFun, nodes[c].bb, nodes[u].bb)
           /\ ~Dominates(CurFun, nodes[u].bb, nodes[c].bb)

\* store chis and call chis of fn for region mr in block bb before instruction idx
ChisBefore(fn, bb, mr, idx) ==
    {c \in KindNodes(fn, {"StoreCHI", "CallCHI"}) :
        nodes[c].bb = bb /\ nodes[c].mr = mr /\ nodes[c].idx < idx}

\* the last of a set of chis of one block, in program order
LastChi(cs) == {c \in cs : \A c2 \in cs : nodes[c2].idx <= nodes[c].idx}

\* the definitions of mr that are the last one on some path to the end of
\* block p, given those at the block entries
DefsOut(fn, f, mr, p, In) ==
    LET cs == ChisBefore(fn, p, mr, Len(f.code[p]) + 1)
    IN  IF cs = {} THEN In[p] ELSE LastChi(cs)

\* the definitions of mr that are the last one on some path from the function
\* entry to the entry of each reachable block: least fixed point over the CFG
RECURSIVE DefsIn(_, _, _, _)
DefsIn(fn, f, mr, In) ==
    LET step == [b \in ReachableBBs(f) |->
                    IF PhisAt(fn, b, mr) # {} THEN PhisAt(fn, b, mr)
                    ELSE IF b = EntryBlock
                        THEN {e \in KindNodes(fn, {"EntryCHI"}) : nodes[e].mr = mr}
                    ELSE UNION {DefsOut(fn, f, mr, p, In) :
                                   p \in {q \in ReachableBBs(f) : b \in f.succ[q]}}]
    IN  IF step = In THEN In ELSE DefsIn(fn, f, mr, step)

\* the definitions of mr that are the last one on some path from the function
\* entry to instruction idx of block bb
ReachingDefs(fn, f, mr, bb, idx) ==
    LET cs == ChisBefore(fn, bb, mr, idx)
    IN  IF cs = {} THEN DefsIn(fn, f, mr, [b \in ReachableBBs(f) |-> {}])[bb]
        ELSE LastChi(cs)

\* C1: after the build of a function that had no node before (its first
\* build), for every load mu, call mu, store chi and call chi of the
\* function, one and the same def node of the region is the last
\* definition on every path from the function entry to the node (entry chi
\* at the entry, phi at block entry, chis in program order, a call site's mu
\* before its chi), and the operand of the node is the version it produced.
C1_UseSeesReachingDef ==
    BuildDone =>
        \A u \in KindNodes(cur, {"LoadMU", "CallMU", "StoreCHI", "CallCHI"}) :
            LET ds == ReachingDefs(cur, CurFun, nodes[u].mr, nodes[u].bb, nodes[u].idx)
            IN  /\ Cardinality(ds) = 1
                /\ \A d \in ds : nodes[d].resVer = nodes[u].opVer

\* a build ended with a call site that reads and modifies a region in a block
\* that holds a phi of the region
C1_Witness ==
    /\ BuildDone
    /\ \E u, c \in KindNodes(cur, {"CallMU", "CallCHI"}) : \E k \in KindNodes(cur, {"PHI"}) :
           /\ nodes[u].kind = "CallMU" /\ nodes[c].kind = "CallCHI"
           /\ nodes[u].bb = nodes[c].bb /\ nodes[u].idx = nodes[c].idx
           /\ nodes[u].mr = nodes[c].mr /\ nodes[k].mr = nodes[u].mr
           /\ nodes[k].bb = nodes[u].bb

\* every function of the session was built
AllBuilt == pc = "idle" /\ \A fn \in DOMAIN prog : built[fn] = 1

AllDefNodes == {i \in NodeIds : nodes[i].kind \in DefKinds}

\* the builds so far were of distinct functions, and the last has returned
DistinctBuilt == pc = "idle" /\ \A fn \in DOMAIN prog : built[fn] <= 1

\* C10 as stated: after builds of distinct functions, no two distinct def
\* nodes of the session have equal output versions.
C10_SessionWideUnique ==
    DistinctBuilt =>
        \A i, j \in AllDefNodes :
            i # j => ~VerEq(nodes[i].resVer, nodes[j].resVer)

\* C10 amended: after builds of distinct functions, two distinct def nodes
\* with equal output versions belong to different functions; version numbers
\* restart in every build, the entry chi of every function producing
\* version 1 of its region.
C10_UniquePerFunction ==
    DistinctBuilt =>
        /\ \A i, j \in AllDefNodes :
               (i # j /\ VerEq(nodes[i].resVer, nodes[j].resVer))
                   => nodes[i].fun # nodes[j].fun
        /\ \A i \in AllDefNodes :
               nodes[i].kind = "EntryCHI" => nodes[i].resVer = MRVer(nodes[i].mr, 1, i)

\* two functions that store to the same region were built, one with a phi
C10_Witness ==
    /\ AllBuilt
    /\ \E i, j, k \in AllDefNodes :
           /\ nodes[i].fun # nodes[j].fun
           /\ nodes[i].kind = "StoreCHI" /\ nodes[j].kind = "StoreCHI"
           /\ nodes[k].kind = "PHI"
           /\ nodes[i].mr = nodes[j].mr /\ nodes[k].mr = nodes[i].mr

\* the places of function fn that hold a version minted for region mr: the
\* operand of the entry chi and the result of every renamed def node
MintSlots(ns, fn, mr) ==
    {<<i, "res">> : i \in {k \in 1..Len(ns) :
                              /\ ns[k].fun = fn /\ ns[k].kind \in DefKinds
                              /\ ns[k].mr = mr /\ ns[k].resVer # NoVer}}
    \cup {<<e, "op">> : e \in {k \in 1..Len(ns) :
                                 /\ ns[k].fun = fn /\ ns[k].kind = "EntryCHI"
                                 /\ ns[k].mr = mr}}

\* the version number held at such a place
SlotVersion(ns, slot) ==
    IF slot[2] = "op" THEN ns[slot[1]].opVer.version ELSE ns[slot[1]].resVer.version

\* the version numbers minted so far for mr in the build of fn
Minted(ns, fn, mr) == {SlotVersion(ns, s) : s \in MintSlots(ns, fn, mr)}

\* a version stack grows by ever larger version numbers
StackIncreasing(stk) ==
    \A k, l \in 1..Len(stk) : k < l => stk[k].version < stk[l].version

\* one step of a build, for one region
C11_Step(mr) ==
    LET old == Minted(nodes, cur, mr)
        all == Minted(nodes', cur', mr)
        slots == MintSlots(nodes', cur', mr)
    IN  /\ \A n \in all \ old : \A o \in old : n > o
        /\ Cardinality(slots) = Cardinality(all)
        /\ \A s \in slots :
               nodes'[s[1]].kind = "EntryCHI" =>
                   SlotVersion(nodes', s) = IF s[2] = "op" THEN 0 ELSE 1
        /\ \A s \in slots :
               (s[2] = "res" /\ nodes'[s[1]].kind \in CHIKinds) =>
                   nodes'[s[1]].opVer.version < nodes'[s[1]].resVer.version
        /\ mr \in DOMAIN mr2VerStackMap' => StackIncreasing(mr2VerStackMap'[mr])

\* C11: in every step of the first build of a function (a function built
\* again holds the nodes of both builds, the case of C17) and for every region,
\* the entry chi holds
\* version 0 as operand and version 1 as result, every version number the
\* step mints is greater than every version number minted for the region
\* before the step, no two def nodes of the build hold the same version number
\* of the region, a chi produces a greater number than it consumes, and the
\* versions on the region's stack grow from bottom to top.
C11_VersionNumbering == [][FirstBuild' => \A mr \in MRs : C11_Step(mr)]_vars

\* a build ended with a phi, a store chi and a call chi of one region
C11_Witness ==
    /\ BuildDone
    /\ \E i, j, k \in KindNodes(cur, DefKinds) :
           /\ nodes[i].kind = "CallCHI" /\ nodes[j].kind = "StoreCHI"
           /\ nodes[k].kind = "PHI"
           /\ nodes[i].mr = nodes[j].mr /\ nodes[j].mr = nodes[k].mr

\* the diamond: entry 1 branches to 2 and 3, both flow into the join 4
DiamondSucc == << {2, 3}, {4}, {4}, {} >>

\* diamond; while loop
JoinShapes ==
    { DiamondSucc,
      << {2}, {3, 4}, {2}, {} >> }

\* a load and two stores
JoinMenu ==
    { Instr("load", {"r1"}, {}),
      Instr("store", {}, {"r1"}),
      Instr("store", {}, {"r2"}) }

\* a session that builds one function with a join of two branches or a loop
\* header, under every order of the predecessor lists and of the children of
\* the dominator tree
InitJoin ==
    /\ \E succ \in JoinShapes : \E preds \in PredOrders(succ) :
           \E body \in BodiesOver(JoinMenu, Len(succ), MaxJoinInstrs) :
               \E rets \in SUBSET ExitBlocks(succ) :
                   prog = [fn \in {FunSeq[1]} |-> MkFun(succ, preds, body, rets)]
    /\ CallerEnv
    /\ InitState

SpecJoin == InitJoin /\ [][Next]_vars

\* the entry chi of region mr in function fn
EntryChiOf(fn, mr) == {e \in KindNodes(fn, {"EntryCHI"}) : nodes[e].mr = mr}

\* the last store chi or call chi of mr in block bb
LastChiIn(fn, f, bb, mr) == LastChi(ChisBefore(fn, bb, mr, Len(f.code[bb]) + 1))

\* the diamond with region mr defined in block left only
C12_Case(mr, left) ==
    /\ BuildDone
    /\ CurFun.succ = DiamondSucc
    /\ LocalDefBlocks(cur, mr) = {left}
    /\ \E c \in KindNodes(cur, {"StoreCHI"}) : nodes[c].mr = mr

\* C12: after the first build of a diamond in which all store chis (and call chis)
\* of a region sit in one of the two branch blocks, the function has exactly
\* one phi of the region, in the join block; its operand at the position of
\* that branch block is the result of the block's last chi of the region, its
\* operand at the position of the other branch block is the result of the
\* entry chi, and every load mu, call mu and return mu of the region in the
\* join block has the result of the phi as operand.
C12_DiamondJoin ==
    \A mr \in MRs : \A left \in {2, 3} :
        C12_Case(mr, left) =>
            LET right == 5 - left
                phis == {p \in KindNodes(cur, {"PHI"}) : nodes[p].mr = mr}
            IN  /\ Cardinality(phis) = 1
                /\ \A p \in phis :
                       /\ nodes[p].bb = 4
                       /\ LET lpos == getBBPredecessorPos(CurFun, left, 4)
                              rpos == getBBPredecessorPos(CurFun, right, 4)
                          IN  /\ DOMAIN nodes[p].opVers = {lpos, rpos}
                              /\ \A c \in LastChiIn(cur, CurFun, left, mr) :
                                     nodes[p].opVers[lpos] = nodes[c].resVer
                              /\ \A e \in EntryChiOf(cur, mr) :
                                     nodes[p].opVers[rpos] = nodes[e].resVer
                       /\ \A u \in KindNodes(cur, {"LoadMU", "CallMU"}) :
                              (nodes[u].mr = mr /\ nodes[u].bb = 4) =>
                                  nodes[u].opVer = nodes[p].resVer
                       /\ \A u \in KindNodes(cur, {"RetMU"}) :
                              (nodes[u].mr = mr /\ nodes[u].at = 4) =>
                                  nodes[u].opVer = nodes[p].resVer

\* the build of a diamond ended, with a store of a region in block 3 only and
\* a load of the region in the join block
C12_Witness ==
    \E mr \in MRs :
        /\ C12_Case(mr, 3)
        /\ \E u \in KindNodes(cur, {"LoadMU"}) : nodes[u].mr = mr /\ nodes[u].bb = 4

\* a function without branch: block b flows into block b + 1, the last returns
Chain(succ) ==
    \A b \in 1..Len(succ) : succ[b] = IF b < Len(succ) THEN {b + 1} ELSE {}

\* the store chis of mr up to instruction idx of block bb (idx excluded), in
\* a chain
StoresBefore(fn, mr, bb, idx) ==
    {c \in KindNodes(fn, {"StoreCHI"}) :
        /\ nodes[c].mr = mr
        /\ (nodes[c].bb < bb \/ (nodes[c].bb = bb /\ nodes[c].idx < idx))}

\* a chain was built, and the defs of mr in it are stores
C13_Case(mr) ==
    /\ BuildDone
    /\ Chain(CurFun.succ)
    /\ mr \in usedRegs
    /\ \A c \in KindNodes(cur, {"CallCHI"}) : nodes[c].mr # mr

\* C13: after the first build of a function whose blocks form a chain, the function
\* has no phi; for a region whose defs are stores, the entry chi produces
\* version 1, the i-th store chi of the region in program order consumes
\* version i and produces version i + 1, and a load mu of the region consumes
\* version 1 + the number of store chis of the region before it.
C13_StraightLine ==
    /\ (BuildDone /\ Chain(CurFun.succ)) => KindNodes(cur, {"PHI"}) = {}
    /\ \A mr \in MRs :
           C13_Case(mr) =>
               /\ \A e \in EntryChiOf(cur, mr) : nodes[e].resVer = MRVer(mr, 1, e)
               /\ \A c \in KindNodes(cur, {"StoreCHI"}) :
                      nodes[c].mr = mr =>
                          LET i == 1 + Cardinality(StoresBefore(cur, mr, nodes[c].bb,
                                                                nodes[c].idx))
                          IN  /\ nodes[c].opVer.mr = mr
                              /\ nodes[c].opVer.version = i
                              /\ nodes[c].resVer = MRVer(mr, i + 1, c)
               /\ \A u \in KindNodes(cur, {"LoadMU"}) :
                      nodes[u].mr = mr =>
                          /\ nodes[u].opVer.mr = mr
                          /\ nodes[u].opVer.version =
                                 1 + Cardinality(StoresBefore(cur, mr, nodes[u].bb,
                                                              nodes[u].idx))

\* the build of a chain ended with two stores of a region in different blocks
C13_Witness ==
    \E mr \in MRs :
        /\ C13_Case(mr)
        /\ \E c, d \in KindNodes(cur, {"StoreCHI"}) :
               nodes[c].mr = mr /\ nodes[d].mr = mr /\ nodes[c].bb < nodes[d].bb

\* the mus and chis of region mr that follow chi c in its block with no other
\* chi of the region in between
NextUses(c) ==
    {u \in KindNodes(cur, {"LoadMU", "CallMU", "StoreCHI", "CallCHI"}) :
        /\ nodes[u].mr = nodes[c].mr /\ nodes[u].bb = nodes[c].bb
        /\ nodes[u].idx > nodes[c].idx
        /\ \A d \in KindNodes(cur, {"StoreCHI", "CallCHI"}) :
               (nodes[d].mr = nodes[c].mr /\ nodes[d].bb = nodes[c].bb)
                   => ~(nodes[c].idx < nodes[d].idx /\ nodes[d].idx < nodes[u].idx)}

\* C14: after the first build of a function, for every call site that has a
\* call mu and a call chi
\* of the same region, the call mu and the call chi have the same operand, the
\* result of the one def node that reaches the call site (the version on top
\* of the region's stack before the call); the result of the call chi is a
\* version minted for the call chi, with a greater number than its operand,
\* and it is the operand of the mus and chis of the region that follow in the
\* block up to the next chi of the region.
C14_CallUseBeforeDef ==
    BuildDone =>
        \A u \in KindNodes(cur, {"CallMU"}) : \A c \in KindNodes(cur, {"CallCHI"}) :
            (nodes[u].bb = nodes[c].bb /\ nodes[u].idx = nodes[c].idx
                /\ nodes[u].mr = nodes[c].mr) =>
                /\ nodes[u].opVer = nodes[c].opVer
                /\ \A d \in ReachingDefs(cur, CurFun, nodes[c].mr, nodes[c].bb,
                                         nodes[c].idx) :
                       nodes[d].resVer = nodes[u].opVer
                /\ nodes[c].resVer.mr = nodes[c].mr
                /\ nodes[c].resVer.def = c
                /\ nodes[c].resVer.version > nodes[c].opVer.version
                /\ \A w \in NextUses(c) : nodes[w].opVer = nodes[c].resVer

\* a build ended with a call site that reads and modifies a region and a load
\* of the region after it in the same block
C14_Witness ==
    /\ BuildDone
    /\ \E u \in KindNodes(cur, {"CallMU"}) : \E c \in KindNodes(cur, {"CallCHI"}) :
           /\ nodes[u].bb = nodes[c].bb /\ nodes[u].idx = nodes[c].idx
           /\ nodes[u].mr = nodes[c].mr
           /\ \E w \in NextUses(c) : nodes[w].kind = "LoadMU"

\* the value a map holds for a key, if any
Held(m, k) == IF k \in DOMAIN m THEN <<m[k]>> ELSE << >>

\* region mr is touched by no load, store or non-intrinsic call site of a
\* reachable block of function fn
Untouched(fn, mr) ==
    /\ fn \in DOMAIN prog
    /\ mr \notin TouchedIn(prog[fn], ReachableBBs(prog[fn]))

\* a step of the session, for one region the function of the step leaves
\* untouched
C15_Step(mr) ==
    Untouched(cur', mr) =>
        /\ \A i \in 1..Len(nodes') : ~(nodes'[i].fun = cur' /\ nodes'[i].mr = mr)
        /\ mr \notin usedRegs'
        /\ reg2BBMap'[mr] = << >>
        /\ Held(mr2CounterMap', mr) = Held(mr2CounterMap, mr)
        /\ Held(mr2VerStackMap', mr) = Held(mr2VerStackMap, mr)

\* C15: for a region that no load, store or non-intrinsic call site of a
\* reachable block of a function touches, no step of the build of that
\* function (its beginning included) leaves a mu, chi or phi of the function
\* for the region, an entry chi or return mu included, nor the region among
\* the used regions or with a defining block, and none changes the region's
\* version counter or version stack.
C15_UntouchedRegion == [][\A mr \in MRs : C15_Step(mr)]_vars

\* both functions were built; the second holds an intrinsic call site on a
\* region it does not touch otherwise, which the first function used
C15_Witness ==
    /\ AllBuilt
    /\ \E mr \in MRs :
           /\ Untouched(cur, mr)
           /\ mr \in DOMAIN mr2CounterMap
           /\ \E b \in ReachableBBs(CurFun) : \E i \in 1..Len(CurFun.code[b]) :
                  CurFun.code[b][i].op = "icall" /\ mr \in CurFun.code[b][i].ref

\* the blocks of a dominator tree in the order SSARenameBB visits them, todo
\* being the blocks still to visit
RECURSIVE PreorderSeq(_, _)
PreorderSeq(dtm, todo) ==
    IF todo = << >> THEN << >>
    ELSE LET bb == Head(todo)
             kids == IF bb \in DOMAIN dtm THEN dtm[bb] ELSE << >>
         IN  <<bb>> \o PreorderSeq(dtm, kids \o Tail(todo))

\* the position of a block in the walk of SSARename, 0 if it is not visited
VisitPos(walk, bb) ==
    IF \E i \in 1..Len(walk) : walk[i] = bb
    THEN CHOOSE i \in 1..Len(walk) : walk[i] = bb
    ELSE 0

\* def node d is renamed before def node e: earlier block of the walk, or the
\* same block and phi before chi, chis in program order
RenamedBefore(walk, d, e) ==
    LET pd == VisitPos(walk, nodes[d].bb)
        pe == VisitPos(walk, nodes[e].bb)
        id == IF nodes[d].kind = "PHI" THEN 0 ELSE nodes[d].idx
        ie == IF nodes[e].kind = "PHI" THEN 0 ELSE nodes[e].idx
    IN  pd < pe \/ (pd = pe /\ id < ie)

\* the version number a def node of fn produces, as a function of the
\* function, its dominator tree and the position of the node alone
ExpectedRes(fn, walk, d) ==
    IF nodes[d].kind = "EntryCHI" THEN 1
    ELSE 2 + Cardinality({e \in KindNodes(fn, {"PHI", "StoreCHI", "CallCHI"}) :
                             nodes[e].mr = nodes[d].mr /\ RenamedBefore(walk, e, d)})

\* the last block of the walk that ends in a return
LastRetBlock(f, walk) ==
    LET rs == {i \in 1..Len(walk) :
                  \E k \in 1..Len(f.code[walk[i]]) : f.code[walk[i]][k].op = "ret"}
    IN  IF rs = {} THEN 0 ELSE walk[CHOOSE i \in rs : \A j \in rs : j <= i]

\* the regions a mu (a chi) of kind at an instruction is made for
ExpectedMRs(inst, kind) ==
    IF kind = "LoadMU" THEN (IF inst.op = "load" THEN inst.ref ELSE {})
    ELSE IF kind = "StoreCHI" THEN (IF inst.op = "store" THEN inst.mod ELSE {})
    ELSE IF kind = "CallMU" THEN (IF inst.op = "call" THEN inst.ref ELSE {})
    ELSE IF inst.op = "call" THEN inst.mod ELSE {}

\* the nodes of function fn are one mu or chi per instruction of a reachable
\* block and region of its MRSet, one entry chi (and one return mu, if a
\* return is reachable) per used region, and one phi per used region and
\* block of the iterated dominance frontier of the region's defining blocks
CanonicalNodes(fn) ==
    LET f == prog[fn]
        reach == ReachableBBs(f)
        used == TouchedIn(f, reach)
    IN  /\ \A i \in KindNodes(fn, {"LoadMU", "StoreCHI", "CallMU", "CallCHI"}) :
               /\ nodes[i].bb \in reach
               /\ nodes[i].idx \in 1..Len(f.code[nodes[i].bb])
        /\ \A b \in reach : \A k \in 1..Len(f.code[b]) :
               \A kind \in {"LoadMU", "StoreCHI", "CallMU", "CallCHI"} : \A mr \in MRs :
                   Cardinality({i \in NodesAt(nodes, kind, fn, b, k) : nodes[i].mr = mr})
                       = IF mr \in ExpectedMRs(f.code[b][k], kind) THEN 1 ELSE 0
        /\ \A mr \in MRs :
               /\ Cardinality(EntryChiOf(fn, mr)) = IF mr \in used THEN 1 ELSE 0
               /\ Cardinality({i \in KindNodes(fn, {"RetMU"}) : nodes[i].mr = mr})
                      = IF mr \in used /\ ~functionDoesNotRet(f) THEN 1 ELSE 0
               /\ LET idf == IDFClosure(domInfo[fn].df, LocalDefBlocks(fn, mr), {})
                  IN  \A b \in BlocksOf(f) :
                          Cardinality(PhisAt(fn, b, mr)) = IF b \in idf THEN 1 ELSE 0

\* the version number of the def of mr that reaches instruction idx of bb
ExpectedAt(fn, walk, mr, bb, idx) ==
    {ExpectedRes(fn, walk, d) : d \in ReachingDefs(fn, prog[fn], mr, bb, idx)}

\* the version numbers held by the nodes of function fn are those the
\* function, its dominance data and the position of each node determine
CanonicalVersions(fn) ==
    LET f == prog[fn]
        walk == PreorderSeq(domInfo[fn].dt, <<EntryBlock>>)
    IN  /\ \A d \in KindNodes(fn, DefKinds) :
               /\ nodes[d].resVer.mr = nodes[d].mr
               /\ nodes[d].resVer.version = ExpectedRes(fn, walk, d)
        /\ \A e \in KindNodes(fn, {"EntryCHI"}) :
               nodes[e].opVer.mr = nodes[e].mr /\ nodes[e].opVer.version = 0
        /\ \A u \in KindNodes(fn, {"LoadMU", "CallMU", "StoreCHI", "CallCHI"}) :
               /\ nodes[u].opVer.mr = nodes[u].mr
               /\ {nodes[u].opVer.version}
                      = ExpectedAt(fn, walk, nodes[u].mr, nodes[u].bb, nodes[u].idx)
        /\ \A u \in KindNodes(fn, {"RetMU"}) :
               LET rb == LastRetBlock(f, walk)
               IN  /\ nodes[u].opVer.mr = nodes[u].mr
                   /\ {nodes[u].opVer.version}
                          = ExpectedAt(fn, walk, nodes[u].mr, rb, Len(f.code[rb]))
        /\ \A p \in KindNodes(fn, {"PHI"}) :
               LET ps == Preds(f, nodes[p].bb)
               IN  /\ DOMAIN nodes[p].opVers =
                          {pos \in 0..(Len(ps) - 1) : ps[pos + 1] \in ReachableBBs(f)}
                   /\ \A pos \in DOMAIN nodes[p].opVers :
                          /\ nodes[p].opVers[pos].mr = nodes[p].mr
                          /\ {nodes[p].opVers[pos].version}
                                 = ExpectedAt(fn, walk, nodes[p].mr, ps[pos + 1],
                                              Len(f.code[ps[pos + 1]]) + 1)

\* C16: whatever the iteration order of MRSets, of node and block sets and of
\* the defining-block lists, after the first build of a function its nodes and the
\* version number of every operand and result are those determined by the
\* function, its dominator tree (children in their fixed order) and its
\* dominance frontier alone: results are numbered per region in the order of
\* the dominator-tree walk, operands are the result of the reaching def.
C16_Deterministic ==
    BuildDone => CanonicalNodes(cur) /\ CanonicalVersions(cur)

\* a build ended under iteration orders that are all the opposite of the
\* canonical ones, with a store that has chis of two regions, two phis in one
\* block, and a region with two defining blocks
C16_Witness ==
    /\ BuildDone
    /\ order.mrs = Reverse(MRSeq) /\ order.bbs = "desc"
    /\ \E c, d \in KindNodes(cur, {"PHI"}) : c < d /\ NodeSetSeq({c, d}) = <<d, c>>
    /\ \E c, d \in KindNodes(cur, {"StoreCHI"}) :
           /\ c # d /\ nodes[c].bb = nodes[d].bb /\ nodes[c].idx = nodes[d].idx
    /\ \E p, q \in KindNodes(cur, {"PHI"}) : p # q /\ nodes[p].bb = nodes[q].bb
    /\ \E mr \in MRs : Len(reg2BBMap[mr]) >= 2

\* after the first build of a function, its nodes and their versions are the
\* ones the function and its dominance data determine
OnceBuilt ==
    (BuildDone /\ built[cur] = 1) => (CanonicalNodes(cur) /\ CanonicalVersions(cur))

\* C17 as stated: after a second build of a function with the same CFG,
\* dominance data and region sets, the entry chis, return mus, store and call
\* chis, load and call mus and phis of the function, and the versions they
\* hold, are those one build leaves.
C17_Idempotent ==
    (Returned /\ built[cur] = 2) => (CanonicalNodes(cur) /\ CanonicalVersions(cur))

\* a step of the session: none leaves the failure outcome, and a call of
\* buildMemSSA on an external function ends in it with the session untouched
C18_Step ==
    /\ pc # "failed"
    /\ \A fn \in FunIds :
           (Build(fn) /\ isExtCall(prog[fn])) =>
               /\ pc' = "failed"
               /\ UNCHANGED <<usedRegs, reg2BBMap, df, dt, nodes, cur, built,
                              mr2CounterMap, mr2VerStackMap, callStack, warnings>>

OpaqueEndsFailed ==
    (cur # NoFun /\ isExtCall(CurFun)) =>
        /\ pc \in {"createMUCHI", "failed"}
        /\ usedRegs = {}
        /\ reg2BBMap = [mr \in MRs |-> << >>]
        /\ \A i \in NodeIds : nodes[i].fun # cur

\* insertPHI has returned in the current build
PhiReturned == FirstBuild /\ pc \in {"SSARename", "SSARenameBB", "idle"}

\* the blocks that enter the worklist of region mr: its defining blocks, and
\* the blocks that get a phi of it
WorklistBlocks(mr) ==
    LET defs == LocalDefBlocks(cur, mr)
        idf == IDFClosure(df, defs, {})
    IN  [defs |-> defs, idf |-> idf]

\* the blocks popped from the worklists of all used regions that the frontier
\* map does not hold: the entries of the defining-block list of the region and
\* the blocks that got a phi of it
MissCount ==
    LET miss(mr) ==
            Cardinality({k \in 1..Len(reg2BBMap[mr]) : reg2BBMap[mr][k] \notin DOMAIN df})
                + Cardinality(WorklistBlocks(mr).idf \ DOMAIN df)
        RECURSIVE sum(_)
        sum(S) == IF S = {} THEN 0
                  ELSE LET mr == CHOOSE x \in S : TRUE IN miss(mr) + sum(S \ {mr})
    IN  sum(usedRegs)

\* a step of insertPHI that pops a block the frontier map does not hold
C19_Step ==
    (pc = "insertPHILoop" /\ phiLoop.bbs # << >>
        /\ phiLoop.bbs[Len(phiLoop.bbs)] \notin DOMAIN df) =>
        /\ warnings' = warnings + 1
        /\ nodes' = nodes
        /\ phiLoop' = [phiLoop EXCEPT !.bbs = SubSeq(@, 1, Len(@) - 1)]
        /\ pc' = "insertPHILoop"

\* C19: a step of insertPHI that pops a block without entry in the dominance
\* frontier map adds one warning, inserts no phi, leaves the rest of the
\* worklist and the remaining regions in place and stays in insertPHI; once
\* insertPHI has returned in the first build of a function, every used region
\* has exactly one phi in each block of the iterated frontier (taken over the
\* blocks that have an entry) of its defining blocks, and the warnings are as
\* many as blocks without entry were popped; no build of a session that was
\* not torn down ends in the failure outcome.
C19_FrontierMissNonFatal ==
    /\ [][C19_Step]_vars
    /\ [](session.stat => pc # "failed")
    /\ [](PhiReturned =>
             /\ warnings = MissCount
             /\ \A mr \in usedRegs : \A b \in BlocksOf(CurFun) :
                    Cardinality(PhisAt(cur, b, mr))
                        = IF b \in WorklistBlocks(mr).idf THEN 1 ELSE 0)

\* a build ended after insertPHI had warned about a defining block without
\* entry and still inserted a phi for another defining block of the region
C19_Witness ==
    /\ BuildDone
    /\ warnings >= 1
    /\ \E mr \in usedRegs :
           /\ LocalDefBlocks(cur, mr) \ DOMAIN df # {}
           /\ LocalDefBlocks(cur, mr) \cap DOMAIN df # {}
           /\ \E b \in BlocksOf(CurFun) : PhisAt(cur, b, mr) # {}

\* C20: whatever dominance frontier map is passed (a block in its own
\* frontier, frontiers that form a cycle, blocks without entry), a function in
\* its first build never has more phis than blocks times used regions, a block
\* never has two phis of one region, and insertPHI, once begun (in the first or
\* in a later build), returns.
C20_PhiInsertionTerminates ==
    /\ [](FirstBuild =>
             /\ Cardinality(KindNodes(cur, {"PHI"}))
                    <= Len(CurFun.succ) * Cardinality(usedRegs)
             /\ \A mr \in MRs : \A b \in BlocksOf(CurFun) :
                    Cardinality(PhisAt(cur, b, mr)) <= 1)
    /\ ((pc = "insertPHI") ~> (pc = "SSARename"))

\* insertPHI returned under a frontier map in which the frontiers of two
\* blocks hold each other, having inserted a phi of two regions in both
C20_Witness ==
    /\ PhiReturned
    /\ \E b, c \in DOMAIN df :
           /\ b # c /\ c \in df[b] /\ b \in df[c]
           /\ \A mr \in MRs : PhisAt(cur, b, mr) # {} /\ PhisAt(cur, c, mr) # {}

\* insertPHI followed step by step ends as the operator insertPHI says
StepwiseAgrees ==
    (FirstBuild /\ pc = "SSARename") =>
        LET before == SelectSeq(nodes, LAMBDA n : n.kind # "PHI")
            s == insertPHI(before, TouchedIn(CurFun, ReachableBBs(CurFun)), cur,
                           CurFun, reg2BBMap, df)
        IN  s.nodes = nodes /\ s.usedRegs = usedRegs /\ s.wrn = warnings

\* the Def/Use Site Builder has walked the current function
MuchiWalked ==
    cur # NoFun /\ pc \in {"insertPHI", "insertPHILoop", "SSARename", "SSARenameBB", "idle"}

\* the reachable blocks of f that hold a store or a non-intrinsic call site
\* that modifies mr
CodeDefBlocks(f, mr) ==
    {b \in ReachableBBs(f) :
        \E i \in 1..Len(f.code[b]) :
            f.code[b][i].op \in {"store", "call"} /\ mr \in f.code[b][i].mod}

\* the store and call-site defs of mr in block b of f
CodeDefs(f, mr, b) ==
    {i \in 1..Len(f.code[b]) :
        f.code[b][i].op \in {"store", "call"} /\ mr \in f.code[b][i].mod}

PredIndex(f, p, s) ==
    LET ps == f.preds[s]
    IN  Cardinality({j \in 1..Len(ps) : \E i \in 1..Len(ps) : ps[i] = p /\ j < i})

\* the def node of mr whose result is on top of the stack of mr at the end of
\* block p, if p holds a def of mr: its last chi, else its phi
LastDefIn(fn, f, p, mr) ==
    IF LastChiIn(fn, f, p, mr) # {} THEN LastChiIn(fn, f, p, mr) ELSE PhisAt(fn, p, mr)

\* an invocation of SSARenameBB has run from its beginning to its first
\* recursive call in this step
EnteredBB == Len(callStack') = Len(callStack) + 1

\* C22 on one step of the first build of a function: the invocation on block
\* p that ran in this step left, in
\* every phi of every successor s of p, at the index of p among the
\* predecessors of s, the version on top of the stack of the phi's region at
\* the end of p, which is the result of the last def of the region in p if p
\* holds one (s = p included); and no step changes an operand a phi holds.
C22_Step ==
    /\ EnteredBB =>
           LET p == callStack'[Len(callStack')].bb
           IN  \A s \in CurFun.succ[p] : \A k \in getPHISet(nodes', cur, s) :
                   LET i == PredIndex(CurFun, p, s)
                       mr == nodes'[k].mr
                       ds == {d \in 1..Len(nodes') :
                                 /\ nodes'[d].fun = cur /\ nodes'[d].bb = p
                                 /\ nodes'[d].mr = mr
                                 /\ nodes'[d].kind \in {"PHI", "StoreCHI", "CallCHI"}}
                   IN  /\ i \in DOMAIN nodes'[k].opVers
                       /\ nodes'[k].opVers[i] = getTopStackVer(mr2VerStackMap', mr)
                       /\ ds # {} => nodes'[k].opVers[i].def \in ds
    /\ \A k \in NodeIds : \A i \in DOMAIN nodes[k].opVers :
           /\ i \in DOMAIN nodes'[k].opVers
           /\ nodes'[k].opVers[i] = nodes[k].opVers[i]

\* C22: after renaming in the first build of a function, every phi of region
\* r at block s holds, at the index
\* of every predecessor p of s that is reachable from the entry block, the
\* version that was on top of the stack of r at the end of p, after the phi
\* results and defs of p were pushed; so for a self loop (p = s) and for a
\* back edge.
C22_PhiOperandIndexing ==
    /\ [][FirstBuild' => C22_Step]_vars
    /\ [](BuildDone =>
            \A k \in KindNodes(cur, {"PHI"}) :
                \A p \in ReachableBBs(CurFun) :
                    nodes[k].bb \in CurFun.succ[p] =>
                        LET i == PredIndex(CurFun, p, nodes[k].bb)
                            ds == LastDefIn(cur, CurFun, p, nodes[k].mr)
                        IN  /\ i \in DOMAIN nodes[k].opVers
                            /\ \A d \in ds : nodes[k].opVers[i] = nodes[d].resVer)

\* a build ended with a phi in a block that is its own predecessor: its
\* operand for the block itself is the result of the block's last chi, its
\* operand for the other predecessor is not
C22_Witness ==
    /\ BuildDone
    /\ \E k \in KindNodes(cur, {"PHI"}) :
           LET s == nodes[k].bb
               i == PredIndex(CurFun, s, s)
           IN  /\ s \in CurFun.succ[s]
               /\ i > 0
               /\ i \in DOMAIN nodes[k].opVers
               /\ nodes[nodes[k].opVers[i].def].bb = s
               /\ nodes[nodes[k].opVers[i].def].kind \in {"StoreCHI", "CallCHI"}
               /\ nodes[k].opVers[0] # nodes[k].opVers[i]

\* the return instructions of f in reachable blocks, as <<block, index>>
ReachableRets(f) ==
    {<<b, i>> \in ReachableBBs(f) \X (1..(MaxInstrs + 1)) :
        i <= Len(f.code[b]) /\ f.code[b][i].op = "ret"}

\* the return mu of region mr in function fn
RetMuOf(fn, mr) == {u \in KindNodes(fn, {"RetMU"}) : nodes[u].mr = mr}

\* the operand of return mu u is the version on top of the stack of its
\* region at the return instruction ret = <<block, index>>: the result of the
\* one def node that is the last definition on every path to ret
ResolvesAt(u, ret) ==
    \A d \in ReachingDefs(cur, CurFun, nodes[u].mr, ret[1], ret[2]) :
        nodes[u].opVer = nodes[d].resVer

\* C23 as stated: after renaming a function that may return (in its first
\* build), for every return
\* instruction in a reachable block and every used region, the return mu of
\* the region has as operand the version that was on top of the stack of the
\* region at that return instruction, also when the function has several
\* return instructions.
C23_ReturnUseResolution ==
    BuildDone =>
        \A ret \in ReachableRets(CurFun) : \A mr \in usedRegs :
            \A u \in RetMuOf(cur, mr) : ResolvesAt(u, ret)

\* what the build does: the one return mu of a region has as operand the
\* version on top of the stack at the return instruction that was renamed
\* last, the one of the block last visited by the dominator-tree walk
LastReturnWins ==
    BuildDone =>
        \A mr \in usedRegs : \A u \in RetMuOf(cur, mr) :
            /\ Cardinality(RetMuOf(cur, mr)) = 1
            /\ \E ret \in ReachableRets(CurFun) :
                   /\ ret[1] = nodes[u].at
                   /\ ResolvesAt(u, ret)
                   /\ LET walk == PreorderSeq(dt, <<EntryBlock>>)
                      IN  \A other \in ReachableRets(CurFun) :
                              VisitPos(walk, other[1]) <= VisitPos(walk, ret[1])

\* the renaming of the current function starts
RenameStarts == cur # NoFun /\ pc = "SSARename"

\* C24: in a session that builds several functions, some of them again, when
\* the renaming of a function starts, the used regions are the regions that
\* function touches in its reachable blocks, the defining blocks of every
\* region are blocks of that function that define it, and every used region
\* has the version counter and the version stack the entry chi of this build
\* left: counter 2, stack holding versions 0 and 1 of that entry chi (the
\* function has one entry chi of the region per build), whatever an earlier
\* build left for the region.
C24_ScratchReset ==
    RenameStarts =>
        /\ usedRegs = TouchedIn(CurFun, ReachableBBs(CurFun))
        /\ \A mr \in MRs :
               {reg2BBMap[mr][k] : k \in 1..Len(reg2BBMap[mr])} = CodeDefBlocks(CurFun, mr)
        /\ \A mr \in usedRegs :
               /\ Cardinality(EntryChiOf(cur, mr)) = built[cur] + 1
               /\ mr2CounterMap[mr] = 2
               /\ \E e \in EntryChiOf(cur, mr) :
                      /\ \A o \in EntryChiOf(cur, mr) : o <= e
                      /\ mr2VerStackMap[mr] = <<MRVer(mr, 0, e), MRVer(mr, 1, e)>>

\* the renaming of the second function starts; the first function left a
\* region both use with a counter above 2 and with defining blocks, and left
\* a region the second function does not use
C24_Witness ==
    /\ RenameStarts
    /\ cur = FunSeq[2]
    /\ built[FunSeq[1]] = 1
    /\ \E mr \in usedRegs :
           /\ \E d \in KindNodes(FunSeq[1], DefKinds) :
                  nodes[d].mr = mr /\ nodes[d].resVer.version >= 2
           /\ CodeDefBlocks(prog[FunSeq[1]], mr) # {}
           /\ CodeDefBlocks(CurFun, mr) # CodeDefBlocks(prog[FunSeq[1]], mr)
    /\ \E mr \in MRs \ usedRegs : mr \in DOMAIN mr2CounterMap

\* the nodes of function fn among ns, in allocation order
NodesOfFun(ns, fn) == SelectSeq(ns, LAMBDA n : n.fun = fn)

\* a step of the session, for one function that is not the one being built
\* after the step
C25_Step(fn) ==
    fn # cur' => NodesOfFun(nodes', fn) = NodesOfFun(nodes, fn)

\* C25: no step of the build of a function (its beginning included) adds,
\* removes or changes a node of another function: its entry chis, return mus,
\* load and call mus, store and call chis and phis, their operand and result
\* versions included stay as they are, also when both functions use the same
\* region.
C25_FrameAcrossFunctions == [][\A fn \in FunIds : C25_Step(fn)]_vars

\* both functions were built; they share a region, the first holds a phi of
\* it, and their return mus of the region hold different versions
C25_Witness ==
    /\ AllBuilt
    /\ cur = FunSeq[2]
    /\ \E k, u \in KindNodes(FunSeq[1], {"PHI", "RetMU"}) : \E w \in KindNodes(cur, {"RetMU"}) :
           /\ nodes[k].kind = "PHI" /\ nodes[u].kind = "RetMU"
           /\ nodes[k].mr = nodes[u].mr /\ nodes[u].mr = nodes[w].mr
           /\ nodes[u].opVer = nodes[k].resVer
           /\ nodes[w].opVer.version # nodes[u].opVer.version
           /\ \E c \in KindNodes(cur, {"StoreCHI", "CallCHI"}) : nodes[c].mr = nodes[w].mr

====
